---- MODULE Spec2Model ----
(***************************************************************************)
(* Blockchain settlement layer of the Asian Cryptocurrency Payment System: *)
(* BitcoinClient (unspent-output ledger) and EthereumClient (account       *)
(* ledger) of package blockchain, each run against a ledger node.  The     *)
(* node is the environment: it keeps the ledger, accepts or rejects        *)
(* broadcasts, mines and reorganises blocks, and may lose a request or a   *)
(* reply.  Amounts are float64 in the source; they are modelled as IEEE    *)
(* 754 binary64 values with exact round-to-nearest-even arithmetic.        *)
(***************************************************************************)
EXTENDS Integers, Sequences, FiniteSets, TLC

(* Unbounded naturals as little-endian sequences of 15-bit limbs. *)
LimbBits == 15
Base == 2^LimbBits

Limb(a, i) == IF i <= Len(a) THEN a[i] ELSE 0
MaxOf(x, y) == IF x >= y THEN x ELSE y

RECURSIVE BNorm(_)
BNorm(a) == IF a = <<>> THEN <<>>
            ELSE IF a[Len(a)] = 0 THEN BNorm(SubSeq(a, 1, Len(a) - 1)) ELSE a

RECURSIVE BFromInt(_)
BFromInt(n) == IF n = 0 THEN <<>> ELSE <<n % Base>> \o BFromInt(n \div Base)

RECURSIVE BToInt(_)
BToInt(a) == IF a = <<>> THEN 0 ELSE a[1] + Base * BToInt(Tail(a))

RECURSIVE BAddRec(_, _, _, _)
BAddRec(a, b, i, c) ==
    IF i > MaxOf(Len(a), Len(b))
    THEN (IF c = 0 THEN <<>> ELSE <<c>>)
    ELSE LET s == Limb(a, i) + Limb(b, i) + c
         IN  <<s % Base>> \o BAddRec(a, b, i + 1, s \div Base)
BAdd(a, b) == BAddRec(a, b, 1, 0)

RECURSIVE BSubRec(_, _, _, _)
BSubRec(a, b, i, br) ==
    IF i > Len(a) THEN <<>>
    ELSE LET d == Limb(a, i) - Limb(b, i) - br
         IN  IF d < 0 THEN <<d + Base>> \o BSubRec(a, b, i + 1, 1)
                      ELSE <<d>> \o BSubRec(a, b, i + 1, 0)
BSub(a, b) == BNorm(BSubRec(a, b, 1, 0))

RECURSIVE BCmpRec(_, _, _)
BCmpRec(a, b, i) == IF i = 0 THEN 0
                    ELSE IF a[i] > b[i] THEN 1
                    ELSE IF a[i] < b[i] THEN -1
                    ELSE BCmpRec(a, b, i - 1)
BCmp(a, b) == IF Len(a) > Len(b) THEN 1
              ELSE IF Len(a) < Len(b) THEN -1
              ELSE BCmpRec(a, b, Len(a))

RECURSIVE BMulSmallRec(_, _, _, _)
BMulSmallRec(a, k, i, c) ==
    IF i > Len(a) THEN (IF c = 0 THEN <<>> ELSE <<c>>)
    ELSE LET p == a[i] * k + c
         IN  <<p % Base>> \o BMulSmallRec(a, k, i + 1, p \div Base)
BMulSmall(a, k) == BNorm(BMulSmallRec(a, k, 1, 0))

BShlLimbs(a, n) == IF a = <<>> THEN <<>> ELSE [i \in 1..n |-> 0] \o a

RECURSIVE BMulRec(_, _, _)
BMulRec(a, b, j) ==
    IF j > Len(b) THEN <<>>
    ELSE BAdd(BShlLimbs(BMulSmall(a, b[j]), j - 1), BMulRec(a, b, j + 1))
BMul(a, b) == BNorm(BMulRec(a, b, 1))

BDivPut(rest, digit) == [q |-> rest.q \o <<digit>>, r |-> rest.r]
RECURSIVE BDivRec(_, _, _, _)
BDivRec(a, k, i, r) ==
    IF i = 0 THEN [q |-> <<>>, r |-> r]
    ELSE BDivPut(BDivRec(a, k, i - 1, (r * Base + a[i]) % k), (r * Base + a[i]) \div k)
BDivNorm(d) == [q |-> BNorm(d.q), r |-> d.r]
BDivSmall(a, k) == BDivNorm(BDivRec(a, k, Len(a), 0))

BShl(a, n) == BMulSmall(BShlLimbs(a, n \div LimbBits), 2^(n % LimbBits))
BShr(a, n) == IF n \div LimbBits >= Len(a) THEN <<>>
              ELSE BDivSmall(SubSeq(a, (n \div LimbBits) + 1, Len(a)), 2^(n % LimbBits)).q

RECURSIVE IntBitLen(_)
IntBitLen(n) == IF n = 0 THEN 0 ELSE 1 + IntBitLen(n \div 2)
BBitLen(a) == IF a = <<>> THEN 0 ELSE LimbBits * (Len(a) - 1) + IntBitLen(a[Len(a)])
BOdd(a) == a # <<>> /\ a[1] % 2 = 1

(* IEEE 754 binary64 values: (-1)^neg * m * 2^e, m of exactly MantBits bits, or zero. *)
MantBits == 53
FZero == [neg |-> FALSE, m |-> <<>>, e |-> 0]

(* Round-to-nearest-even of the exact value M * 2^E. *)
FRenorm(neg, q, E) ==
    IF BBitLen(q) > MantBits
    THEN [neg |-> neg, m |-> BShr(q, 1), e |-> E + 1]
    ELSE [neg |-> neg, m |-> q, e |-> E]
FRoundsUp(q, c) == c = 1 \/ (c = 0 /\ BOdd(q))
FRoundShift(neg, M, E, d, q) ==
    FRenorm(neg,
            IF FRoundsUp(q, BCmp(BSub(M, BShl(q, d)), BShl(<<1>>, d - 1)))
            THEN BAdd(q, <<1>>) ELSE q,
            E + d)
FRoundLen(neg, M, E, L) ==
    IF L <= MantBits
    THEN [neg |-> neg, m |-> BShl(M, MantBits - L), e |-> E - (MantBits - L)]
    ELSE FRoundShift(neg, M, E, L - MantBits, BShr(M, L - MantBits))
FRound(neg, M, E) == IF M = <<>> THEN FZero ELSE FRoundLen(neg, M, E, BBitLen(M))

FFromInt(n) == FRound(FALSE, BFromInt(n), 0)

(* The binary64 nearest to the decimal n / 10^8 (a JSON amount with 8 decimals). *)
FDecimalSticky(d1, d2) ==
    FRound(FALSE,
           BAdd(BShl(d2.q, 1), IF d1.r # 0 \/ d2.r # 0 THEN <<1>> ELSE <<>>),
           -91)
FDecimalStep(d1) == FDecimalSticky(d1, BDivSmall(d1.q, 10000))
FFromDecimal8(n) == FDecimalStep(BDivSmall(BShl(BFromInt(n), 90), 10000))

FMul(a, b) == FRound(a.neg # b.neg, BMul(a.m, b.m), a.e + b.e)

FAddCmp(aneg, bneg, A, B, e, c) ==
    FRound(IF aneg = bneg \/ c >= 0 THEN aneg ELSE bneg,
           IF aneg = bneg THEN BAdd(A, B)
           ELSE IF c >= 0 THEN BSub(A, B) ELSE BSub(B, A),
           e)
FAddAligned(aneg, bneg, A, B, e) == FAddCmp(aneg, bneg, A, B, e, BCmp(A, B))
FAddAt(a, b, e) == FAddAligned(a.neg, b.neg, BShl(a.m, a.e - e), BShl(b.m, b.e - e), e)
FAdd(a, b) ==
    IF a.m = <<>> THEN b
    ELSE IF b.m = <<>> THEN a
    ELSE FAddAt(a, b, IF a.e <= b.e THEN a.e ELSE b.e)

FNeg(a) == IF a.m = <<>> THEN a ELSE [a EXCEPT !.neg = ~a.neg]
FSub(a, b) == FAdd(a, FNeg(b))
FSign(a) == IF a.m = <<>> THEN 0 ELSE IF a.neg THEN -1 ELSE 1
FLess(a, b) == FSign(FSub(a, b)) = -1
FGeq(a, b) == ~FLess(a, b)

(* Conversion to integer: truncation toward zero (magnitude as an integer). *)
FTruncMag(a) == IF a.m = <<>> THEN 0
                ELSE IF a.e >= 0 THEN BToInt(BShl(a.m, a.e))
                ELSE BToInt(BShr(a.m, -a.e))
FTrunc(a) == IF a.neg THEN -FTruncMag(a) ELSE FTruncMag(a)


(***************************************************************************)
(* Bounds of the model.                                                    *)
(***************************************************************************)
MaxCalls == 2        \* SendTransaction calls per adapter (they may overlap)
MaxHeight == 2       \* blocks the node mines
MaxReorgs == 1       \* chain reorganisations of depth one
MaxClock == 2        \* ticks of the wall clock
ConfirmTimeout == 2  \* the tracker's configured timeout, in ticks

Calls == 1..MaxCalls

VARIABLES
    btcOutputs,   \* node: every transaction output, in listing order
    btcTxs,       \* node: accepted transactions (mempool and chain), by id
    btcHeight,    \* node: chain height
    btcReorgs,    \* node: reorganisations so far
    btcCalls,     \* BitcoinClient.SendTransaction calls in progress
    btcTxObs,     \* last result of BitcoinClient.GetTransaction, per id
    btcConfObs,   \* last result of BitcoinClient.GetConfirmations, per id
    clock         \* wall clock

btcVars == <<btcOutputs, btcTxs, btcHeight, btcReorgs, btcCalls, btcTxObs,
             btcConfObs, clock>>

VARIABLES
    ethTxs,       \* node: accepted transactions (pool and chain), by id
    ethHeight,    \* node: current block number
    ethReorgs,    \* node: reorganisations so far
    ethCalls,     \* EthereumClient.SendTransaction calls in progress
    ethSent,      \* every transaction handed to the node, in order
    ethPoll,      \* the GetTransaction or GetConfirmations call in progress
    ethTxObs,     \* last result of EthereumClient.GetTransaction, per id
    ethConfObs    \* last result of EthereumClient.GetConfirmations, per id

ethVars == <<ethTxs, ethHeight, ethReorgs, ethCalls, ethSent, ethPoll, ethTxObs,
             ethConfObs>>

VARIABLES
    validated     \* the last ValidateAddress call: adapter, address, result

VARIABLES
    keyLog,       \* log.Printf output of GenerateAddress: the arguments, per line
    keyIssued     \* the addresses GenerateAddress returned, with the key drawn

keyVars == <<keyLog, keyIssued>>

VARIABLES
    regClients,   \* BlockchainClientFactory.clients
    regLog,       \* every RegisterClient call, in order
    regGot,       \* the last GetClient call and its result
    regSupported  \* the last GetSupportedCurrencies result

regVars == <<regClients, regLog, regGot, regSupported>>

VARIABLES
    limMax,       \* RateLimiter.maxRequests
    limRequests,  \* RateLimiter.requests: the times kept, per key
    limNow,       \* time.Now()
    limCalls,     \* every CheckLimit call: key, time, result
    limLast       \* the last CheckLimit call: the key's record before and after

limVars == <<limMax, limRequests, limNow, limCalls, limLast>>

VARIABLES
    rateCacheEnabled, \* ExchangeRateService.cacheEnabled
    rateProviders,    \* ExchangeRateService.providers, in registration order
    rateHeap,         \* the ExchangeRate objects allocated, by pointer
    rateCache,        \* ExchangeRateService.cache: cache key to pointer
    rateNow,          \* time.Now()
    rateLast          \* the last call of the service and its result

rateVars == <<rateCacheEnabled, rateProviders, rateHeap, rateCache, rateNow,
              rateLast>>

VARIABLES
    fraudCountries,    \* FraudDetectionService.config.BlockedCountries
    fraudCountryCache, \* FraudDetectionService.countryCache: the keys held true
    fraudIpCache,      \* FraudDetectionService.ipCache: the keys held true
    fraudVelocity,     \* config.VelocityCheckEnabled
    fraudTransactions, \* FraudDetectionService.transactions: times, per user
    fraudNow,          \* time.Now()
    fraudBlocked,      \* the codes, in upper case, configured or blocked and
                       \* not unblocked since
    fraudOps,          \* BlockCountry and UnblockCountry calls made
    fraudLast          \* the last IsCountryBlocked or CheckTransaction call

fraudVars == <<fraudCountries, fraudCountryCache, fraudIpCache, fraudVelocity,
               fraudTransactions, fraudNow, fraudBlocked, fraudOps, fraudLast>>

\* the state outside the two adapters' ledgers
svcVars == <<keyVars, regVars, limVars, rateVars, fraudVars>>

vars == <<btcVars, ethVars, validated, svcVars>>

\* what a step of one adapter leaves alone
BtcOnly == UNCHANGED <<ethVars, validated, svcVars>>
EthOnly == UNCHANGED <<btcVars, validated, svcVars>>

(***************************************************************************)
(* blockchain.go: statuses and errors.                                     *)
(***************************************************************************)
StatusPending == "pending"
StatusConfirmed == "confirmed"
StatusFailed == "failed"
TransactionStatus == {StatusPending, StatusConfirmed, StatusFailed}

ErrInvalidAddress == "invalid blockchain address"
ErrInsufficientBalance == "insufficient balance"
ErrInvalidKey == "invalid private key"
ErrListUnspent == "failed to get unspent outputs"
ErrBroadcast == "failed to broadcast transaction"
Ok == "ok"

NoObs == [status |-> "none", confirmations |-> <<>>]
\* no GetConfirmations result yet; under is the status GetTransaction had last
\* reported when the count was read
NoCount == [status |-> "none", confirmations |-> <<>>, under |-> "none"]

(***************************************************************************)
(* BitcoinClient.                                                          *)
(***************************************************************************)
BtcAddresses == {"1A", "1B", "bad"}
\* btcutil.DecodeAddress succeeds
BtcValidateAddress(address) == address \in {"1A", "1B"}

SatoshiPerBitcoin == FFromInt(100000000)
\* the fixed fee 0.0001 of SendTransaction and EstimateFee
BtcFee == FFromDecimal8(10000)
BtcFeeSatoshi == FTrunc(FMul(BtcFee, SatoshiPerBitcoin))

\* Amounts requested of SendTransaction and amounts of the genesis outputs,
\* in satoshi: the float64 argument is the one nearest to the decimal.
BtcAmounts == {3, 5000, 20000}
BtcGenesisAmounts == {15000, 20000}

\* node: confirmations of transaction t as getrawtransaction reports them
BtcNodeConfirmations(t) ==
    IF btcTxs[t].height > 0 THEN btcHeight - btcTxs[t].height + 1 ELSE 0

\* node: confirmations of output o
BtcOutputConfirmations(o) ==
    IF btcOutputs[o].tx = 0 THEN btcHeight + 1
    ELSE BtcNodeConfirmations(btcOutputs[o].tx)

\* node: listunspent with minconf 1; amounts as JSON decimals of BTC
RECURSIVE BtcListFrom(_)
BtcListFrom(o) ==
    IF o > Len(btcOutputs) THEN <<>>
    ELSE IF btcOutputs[o].spentBy = 0 /\ BtcOutputConfirmations(o) >= 1
         THEN <<[id |-> o, Address |-> btcOutputs[o].addr,
                 Amount |-> FFromDecimal8(btcOutputs[o].sat)]>> \o BtcListFrom(o + 1)
         ELSE BtcListFrom(o + 1)
ListUnspentMinMaxAddresses == BtcListFrom(1)

\* SendTransaction, "Add inputs": every listed output of fromAddress, in
\* listing order, until totalInput >= amount + 0.0001
RECURSIVE BtcAddInputs(_, _, _, _, _, _)
BtcAddInput(unspentOutputs, fromAddress, amount, i, totalInput, ins) ==
    IF FGeq(totalInput, FAdd(amount, BtcFee))
    THEN [totalInput |-> totalInput, ins |-> ins]
    ELSE BtcAddInputs(unspentOutputs, fromAddress, amount, i + 1, totalInput, ins)
BtcAddInputs(unspentOutputs, fromAddress, amount, i, totalInput, ins) ==
    IF i > Len(unspentOutputs)
    THEN [totalInput |-> totalInput, ins |-> ins]
    ELSE IF unspentOutputs[i].Address = fromAddress
         THEN BtcAddInput(unspentOutputs, fromAddress, amount, i,
                          FAdd(totalInput, unspentOutputs[i].Amount),
                          Append(ins, unspentOutputs[i].id))
         ELSE BtcAddInputs(unspentOutputs, fromAddress, amount, i + 1,
                           totalInput, ins)

\* amountSatoshi := int64(amount * 100000000)
BtcToSatoshi(amount) == FTrunc(FMul(amount, SatoshiPerBitcoin))

\* SendTransaction, the outputs: the recipient's, and the change when change > 0
BtcAddOutputs(sel, amount, insufficient, change) ==
    [insufficient  |-> insufficient,
     ins           |-> sel.ins,
     amountSatoshi |-> BtcToSatoshi(amount),
     hasChange     |-> FSign(change) = 1,
     changeSatoshi |-> IF FSign(change) = 1 THEN BtcToSatoshi(change) ELSE 0]

\* a balance check that forgets the fee
BtcBuildFromNoFee(sel, amount) ==
    BtcAddOutputs(sel, amount, FLess(sel.totalInput, amount),
                  FSub(FSub(sel.totalInput, amount), BtcFee))

\* SendTransaction after the inputs: the balance check, then the outputs
BtcBuildFrom(sel, amount) ==
    BtcAddOutputs(sel, amount, FLess(sel.totalInput, FAdd(amount, BtcFee)),
                  FSub(FSub(sel.totalInput, amount), BtcFee))

\* SendTransaction from the listing to the built transaction
BtcBuild(unspentOutputs, fromAddress, amount) ==
    BtcBuildFrom(BtcAddInputs(unspentOutputs, fromAddress, amount, 1, FZero, <<>>),
                 amount)

\* a call: the arguments, the built transaction, the result; retryOf (the
\* earlier call this one retries), inflight (the calls between build and
\* broadcast when this one listed) and balance (the satoshi the listing held
\* for fromAddress) record the history the properties speak of, requests
\* the requests the call has sent to the node
BtcIdleCall == [pc |-> "idle", from |-> "", to |-> "", amount |-> 0, ins |-> <<>>,
                amountSatoshi |-> 0, hasChange |-> FALSE, changeSatoshi |-> 0,
                result |-> "", txid |-> 0, retryOf |-> 0, inflight |-> {},
                balance |-> 0, requests |-> 0, broadcasts |-> 0]

\* a return that tries the broadcast again when it failed
BtcDoneRetrying(call, result) ==
    IF result = ErrBroadcast THEN call
    ELSE [call EXCEPT !.pc = "done", !.result = result]

\* the return of SendTransaction
BtcDone(call, result) == [call EXCEPT !.pc = "done", !.result = result]

\* the calls from fromAddress that are between build and broadcast
BtcInFlight(from) ==
    {c \in Calls : btcCalls[c].pc = "built" /\ btcCalls[c].from = from}

\* the satoshi of the listed outputs of fromAddress
RECURSIVE BtcSumFrom(_, _)
BtcSumFrom(o, from) ==
    IF o > Len(btcOutputs) THEN 0
    ELSE (IF btcOutputs[o].addr = from /\ btcOutputs[o].spentBy = 0
             /\ BtcOutputConfirmations(o) >= 1
          THEN btcOutputs[o].sat ELSE 0) + BtcSumFrom(o + 1, from)
BtcListedBalance(from) == BtcSumFrom(1, from)

\* the call after the build: ErrInsufficientBalance, or ready to broadcast
BtcBuilt(call, from, to, amt, r, b) ==
    IF b.insufficient
    THEN [BtcDone(call, ErrInsufficientBalance) EXCEPT
              !.from = from, !.to = to, !.amount = amt, !.requests = 1,
              !.inflight = BtcInFlight(from), !.balance = BtcListedBalance(from)]
    ELSE [call EXCEPT !.pc = "built", !.from = from, !.to = to, !.amount = amt,
                      !.retryOf = r, !.ins = b.ins, !.requests = 1,
                      !.inflight = BtcInFlight(from),
                      !.balance = BtcListedBalance(from),
                      !.amountSatoshi = b.amountSatoshi,
                      !.hasChange = b.hasChange,
                      !.changeSatoshi = b.changeSatoshi]

\* a call that ended in a broadcast error: the caller does not know whether
\* the transaction reached the node, and may retry the same request
BtcRetryable(c0, from, to, amt) ==
    /\ btcCalls[c0].pc = "done"
    /\ btcCalls[c0].result = ErrBroadcast
    /\ btcCalls[c0].from = from /\ btcCalls[c0].to = to /\ btcCalls[c0].amount = amt

\* a validation that looks at the sender only
BtcAddressesValidFrom(fromAddress, toAddress) == BtcValidateAddress(fromAddress)

\* SendTransaction, "Validate addresses"
BtcAddressesValid(fromAddress, toAddress) ==
    BtcValidateAddress(fromAddress) /\ BtcValidateAddress(toAddress)

\* SendTransaction up to the built and signed transaction: validation, key
\* parsing, the listunspent request, input selection, outputs
BtcSendTransactionBuildOf(c, amounts) ==
    /\ btcCalls[c].pc = "idle"
    /\ \/ \E from \in BtcAddresses, to \in BtcAddresses :
             /\ ~BtcAddressesValid(from, to)
             /\ btcCalls' = [btcCalls EXCEPT ![c] =
                    [BtcDone(@, ErrInvalidAddress) EXCEPT !.from = from, !.to = to]]
       \/ \* btcutil.DecodeWIF fails
          btcCalls' = [btcCalls EXCEPT ![c] = BtcDone(@, ErrInvalidKey)]
       \/ \* the listunspent request fails
          btcCalls' = [btcCalls EXCEPT ![c] =
              [BtcDone(@, ErrListUnspent) EXCEPT !.requests = 1]]
       \/ \E from \in BtcAddresses, to \in BtcAddresses, amt \in amounts,
             r \in {0} \cup {c0 \in Calls : btcCalls[c0].result = ErrBroadcast} :
             /\ BtcAddressesValid(from, to)
             /\ r # 0 => BtcRetryable(r, from, to, amt)
             /\ btcCalls' = [btcCalls EXCEPT ![c] =
                    BtcBuilt(@, from, to, amt, r,
                             BtcBuild(ListUnspentMinMaxAddresses, from,
                                      FFromDecimal8(amt)))]
    /\ UNCHANGED <<btcOutputs, btcTxs, btcHeight, btcReorgs, btcTxObs, btcConfObs,
                   clock>>
    /\ BtcOnly

BtcSendTransactionBuild(c) == BtcSendTransactionBuildOf(c, BtcAmounts)

Range(seq) == {seq[i] : i \in 1..Len(seq)}

\* node: a transaction is accepted when none of its inputs is spent
BtcNodeAccepts(call) == \A o \in Range(call.ins) : btcOutputs[o].spentBy = 0

\* node: the ledger after accepting the transaction of call c
BtcNodeAccept(c) ==
    LET call == btcCalls[c]
        t    == Len(btcTxs) + 1
        spent == [o \in 1..Len(btcOutputs) |->
                     IF o \in Range(call.ins)
                     THEN [btcOutputs[o] EXCEPT !.spentBy = t] ELSE btcOutputs[o]]
        outs == <<[addr |-> call.to, sat |-> call.amountSatoshi, tx |-> t, spentBy |-> 0]>>
                \o (IF call.hasChange
                    THEN <<[addr |-> call.from, sat |-> call.changeSatoshi, tx |-> t,
                            spentBy |-> 0]>>
                    ELSE <<>>)
    IN  /\ btcOutputs' = spent \o outs
        /\ btcTxs' = Append(btcTxs, [ins |-> call.ins, from |-> call.from,
                                     to |-> call.to, amountSatoshi |-> call.amountSatoshi,
                                     hasChange |-> call.hasChange,
                                     changeSatoshi |-> call.changeSatoshi,
                                     height |-> 0, everIncluded |-> FALSE,
                                     sentAt |-> clock, call |-> c])
        /\ btcTxObs' = Append(btcTxObs, NoObs)
        /\ btcConfObs' = Append(btcConfObs, NoCount)

\* SendTransaction, the end: the error of SendRawTransaction, or the hash
\* a result that drops the error of SendRawTransaction
BtcBroadcastResultIgnored(err) == Ok
BtcBroadcastResult(err) == IF err THEN ErrBroadcast ELSE Ok

\* SendTransaction, "Send raw transaction": the one broadcast request
BtcSendTransactionBroadcast(c) ==
    /\ btcCalls[c].pc = "built"
    /\ \/ \* the node accepts and answers with the transaction hash
          /\ BtcNodeAccepts(btcCalls[c])
          /\ BtcNodeAccept(c)
          /\ btcCalls' = [btcCalls EXCEPT ![c] =
                 [BtcDone(@, BtcBroadcastResult(FALSE)) EXCEPT
                      !.txid = Len(btcTxs) + 1, !.requests = 2,
                      !.broadcasts = @ + 1]]
       \/ \* the node accepts and the reply is lost (timeout)
          /\ BtcNodeAccepts(btcCalls[c])
          /\ BtcNodeAccept(c)
          /\ btcCalls' = [btcCalls EXCEPT ![c] =
                 [BtcDone(@, BtcBroadcastResult(TRUE)) EXCEPT !.requests = 2,
                                                            !.broadcasts = @ + 1]]
       \/ \* the node rejects (an input is spent, policy), or is unreachable
          /\ btcCalls' = [btcCalls EXCEPT ![c] =
                 [BtcDone(@, BtcBroadcastResult(TRUE)) EXCEPT !.requests = 2,
                                                            !.broadcasts = @ + 1]]
          /\ UNCHANGED <<btcOutputs, btcTxs, btcTxObs, btcConfObs>>
    /\ UNCHANGED <<btcHeight, btcReorgs, clock>>
    /\ BtcOnly

\* GetTransaction: getrawtransaction, then status from tx.Confirmations > 0
BtcGetTransaction(t) ==
    /\ t \in 1..Len(btcTxs)
    /\ LET confirmations == BtcNodeConfirmations(t)
       IN  btcTxObs' = [btcTxObs EXCEPT ![t] =
               IF confirmations > 0
               THEN [status |-> StatusConfirmed, confirmations |-> BFromInt(confirmations)]
               ELSE [status |-> StatusPending, confirmations |-> BFromInt(0)]]
    /\ UNCHANGED <<btcOutputs, btcTxs, btcHeight, btcReorgs, btcCalls, btcConfObs,
                   clock>>
    /\ BtcOnly

\* GetConfirmations: uint64(tx.Confirmations)
BtcGetConfirmations(t) ==
    /\ t \in 1..Len(btcTxs)
    /\ btcConfObs' = [btcConfObs EXCEPT ![t] =
           [status |-> "count", confirmations |-> BFromInt(BtcNodeConfirmations(t)),
            under |-> btcTxObs[t].status]]
    /\ UNCHANGED <<btcOutputs, btcTxs, btcHeight, btcReorgs, btcCalls, btcTxObs,
                   clock>>
    /\ BtcOnly

\* node: a block is mined with every transaction of the mempool
BtcMineBlock ==
    /\ btcHeight < MaxHeight
    /\ btcHeight' = btcHeight + 1
    /\ btcTxs' = [t \in 1..Len(btcTxs) |->
                     IF btcTxs[t].height = 0
                     THEN [btcTxs[t] EXCEPT !.height = btcHeight + 1,
                                            !.everIncluded = TRUE]
                     ELSE btcTxs[t]]
    /\ UNCHANGED <<btcOutputs, btcReorgs, btcCalls, btcTxObs, btcConfObs, clock>>
    /\ BtcOnly

\* node: the tip block is abandoned; its transactions return to the mempool
BtcReorg ==
    /\ btcReorgs < MaxReorgs
    /\ btcHeight > 0
    /\ btcReorgs' = btcReorgs + 1
    /\ btcHeight' = btcHeight - 1
    /\ btcTxs' = [t \in 1..Len(btcTxs) |->
                     IF btcTxs[t].height = btcHeight
                     THEN [btcTxs[t] EXCEPT !.height = 0] ELSE btcTxs[t]]
    /\ UNCHANGED <<btcOutputs, btcCalls, btcTxObs, btcConfObs, clock>>
    /\ BtcOnly

Tick ==
    /\ clock < MaxClock
    /\ clock' = clock + 1
    /\ UNCHANGED <<btcOutputs, btcTxs, btcHeight, btcReorgs, btcCalls, btcTxObs,
                   btcConfObs>>
    /\ BtcOnly

BtcInitFrom(amounts) ==
    /\ \E a1 \in amounts, a2 \in amounts :
           btcOutputs = <<[addr |-> "1A", sat |-> a1, tx |-> 0, spentBy |-> 0],
                          [addr |-> "1B", sat |-> 20000, tx |-> 0, spentBy |-> 0],
                          [addr |-> "1A", sat |-> a2, tx |-> 0, spentBy |-> 0]>>
    /\ btcTxs = <<>>
    /\ btcHeight = 0
    /\ btcReorgs = 0
    /\ btcCalls = [c \in Calls |-> BtcIdleCall]
    /\ btcTxObs = <<>>
    /\ btcConfObs = <<>>
    /\ clock = 0
BtcInit == BtcInitFrom(BtcGenesisAmounts)

\* the selection scenario: address "1A" holds three listed outputs of 1, 3 or
\* 5 fees each (the fee is the fixed 0.0001), in any listing order, and 6 fees
\* are requested
BtcSelectOutputs == {10000, 30000, 50000}
BtcSelectAmounts == {60000}
BtcSelectInit ==
    /\ \E a1 \in BtcSelectOutputs, a2 \in BtcSelectOutputs, a3 \in BtcSelectOutputs :
           btcOutputs = <<[addr |-> "1A", sat |-> a1, tx |-> 0, spentBy |-> 0],
                          [addr |-> "1A", sat |-> a2, tx |-> 0, spentBy |-> 0],
                          [addr |-> "1A", sat |-> a3, tx |-> 0, spentBy |-> 0]>>
    /\ btcTxs = <<>>
    /\ btcHeight = 0
    /\ btcReorgs = 0
    /\ btcCalls = [c \in Calls |-> BtcIdleCall]
    /\ btcTxObs = <<>>
    /\ btcConfObs = <<>>
    /\ clock = 0

(***************************************************************************)
(* EthereumClient.                                                         *)
(***************************************************************************)
\* "0xa1" is the lower-case form of the account whose EIP-55 form is "0xA1";
\* "0xA1~" is that form with the case of one letter changed, so that its
\* EIP-55 checksum is wrong; "bad" is not 40 hex digits
EthAddresses == {"0xA1", "0xa1", "0xA1~", "0xB2", "bad"}
\* common.IsHexAddress: 40 hex digits after an optional 0x, of any case
EthValidateAddress(address) == address \in {"0xA1", "0xa1", "0xA1~", "0xB2"}
\* common.HexToAddress(address).Hex()
EthHex(address) == IF address \in {"0xa1", "0xA1~"} THEN "0xA1" ELSE address

EthKeys == {"keyA1", "keyB2", "badkey"}
\* hexutil.Decode and crypto.ToECDSA succeed
EthKeyValid(privateKeyHex) == privateKeyHex \in {"keyA1", "keyB2"}
\* crypto.PubkeyToAddress(publicKey).Hex()
EthKeyAddress(privateKeyHex) == IF privateKeyHex = "keyA1" THEN "0xA1" ELSE "0xB2"

\* amounts requested of SendTransaction, in 10^-8 ether
EthAmounts == {29000000}
\* gas prices the node suggests
EthGasPrices == {1, 2}

ErrKeyMismatch == "private key does not match from address"
ErrNonce == "failed to get nonce"
ErrGasPrice == "failed to get gas price"
ErrSend == "failed to send transaction"

\* params.Ether as a big.Float of 53 bits
WeiPerEther == FRound(FALSE, BMul(BFromInt(1000000000), BFromInt(1000000000)), 0)
\* big.Float.Int: truncation toward zero
FTruncBig(a) == IF a.m = <<>> THEN <<>>
                ELSE IF a.e >= 0 THEN BShl(a.m, a.e) ELSE BShr(a.m, -a.e)
\* value := amount * params.Ether; valueInt, _ := value.Int(nil)
EthToWei(amount) == FTruncBig(FMul(amount, WeiPerEther))

\* uint64 subtraction
TwoPow64 == BShl(<<1>>, 64)
U64Sub(x, y) == IF x >= y THEN BFromInt(x - y) ELSE BSub(TwoPow64, BFromInt(y - x))

\* node: the transactions of an account that were not replaced
EthTxsOf(account) ==
    {t \in 1..Len(ethTxs) : ethTxs[t].from = account /\ ~ethTxs[t].dropped}
\* node: eth_getTransactionCount(account, "latest")
NonceAt(account) == Cardinality({t \in EthTxsOf(account) : ethTxs[t].block > 0})
\* node: eth_getTransactionCount(account, "pending")
PendingNonceAt(account) == Cardinality(EthTxsOf(account))

\* a nonce that counts only the mined transactions (NonceAt in place of
\* PendingNonceAt)
EthGetNonceLatest(address) == NonceAt(address)
\* SendTransaction, "Get nonce"
EthGetNonce(address) == PendingNonceAt(address)

\* the last transaction of the account the node accepted (0: none)
EthLastAccepted(account) ==
    LET ts == {t \in 1..Len(ethTxs) : ethTxs[t].from = account}
    IN  IF ts = {} THEN 0 ELSE CHOOSE t \in ts : \A u \in ts : u <= t

\* a call: the arguments, the nonce and gas price fetched, the result; after
\* (the last transaction of the address the node had accepted when the nonce
\* was fetched), inflight (the calls of the address between nonce and
\* broadcast at that moment) and retryOf record the history the properties
\* speak of, key the key material given, requests the requests the call has
\* sent to the node
EthIdleCall == [pc |-> "idle", from |-> "", to |-> "", amount |-> 0, nonce |-> 0,
                gasPrice |-> 0, result |-> "", txid |-> 0, after |-> 0,
                retryOf |-> 0, inflight |-> {}, key |-> "", requests |-> 0,
                broadcasts |-> 0]

\* the calls from the address that are between the nonce and the broadcast
EthInFlight(from) ==
    {c \in Calls : ethCalls[c].pc \in {"nonce", "priced"} /\ ethCalls[c].from = from}

EthDone(call, result) == [call EXCEPT !.pc = "done", !.result = result]

EthRetryable(c0, from, to, amt) ==
    /\ ethCalls[c0].pc = "done"
    /\ ethCalls[c0].result = ErrSend
    /\ ethCalls[c0].from = from /\ ethCalls[c0].to = to /\ ethCalls[c0].amount = amt

\* a validation that looks at the sender only
EthAddressesValidFrom(fromAddress, toAddress) == EthValidateAddress(fromAddress)

\* SendTransaction, "Validate addresses"
EthAddressesValid(fromAddress, toAddress) ==
    EthValidateAddress(fromAddress) /\ EthValidateAddress(toAddress)

\* a key check that is left out
EthKeyMatchesAny(privateKeyHex, fromAddress) == TRUE

\* SendTransaction, "verify address": address.Hex() != fromAddress
EthKeyMatches(privateKeyHex, fromAddress) ==
    EthKeyAddress(privateKeyHex) = fromAddress

\* SendTransaction up to the nonce: validation, key parsing, the key/address
\* check, the PendingNonceAt request
EthSendTransactionNonce(c) ==
    /\ ethCalls[c].pc = "idle"
    /\ \/ \E from \in EthAddresses, to \in EthAddresses :
             /\ ~EthAddressesValid(from, to)
             /\ ethCalls' = [ethCalls EXCEPT ![c] =
                    [EthDone(@, ErrInvalidAddress) EXCEPT !.from = from, !.to = to]]
       \/ \E key \in EthKeys :
             /\ ~EthKeyValid(key)
             /\ ethCalls' = [ethCalls EXCEPT ![c] = EthDone(@, ErrInvalidKey)]
       \/ \E from \in EthAddresses, key \in EthKeys :
             /\ EthValidateAddress(from) /\ EthKeyValid(key)
             /\ ~EthKeyMatches(key, from)
             /\ ethCalls' = [ethCalls EXCEPT ![c] =
                    [EthDone(@, ErrKeyMismatch) EXCEPT !.from = from, !.key = key]]
       \/ \* the PendingNonceAt request fails
          ethCalls' = [ethCalls EXCEPT ![c] =
              [EthDone(@, ErrNonce) EXCEPT !.requests = 1]]
       \/ \E from \in EthAddresses, to \in EthAddresses, key \in EthKeys,
             amt \in EthAmounts,
             r \in {0} \cup {c0 \in Calls : ethCalls[c0].result = ErrSend} :
             /\ EthAddressesValid(from, to)
             /\ EthKeyValid(key) /\ EthKeyMatches(key, from)
             /\ r # 0 => EthRetryable(r, from, to, amt)
             /\ ethCalls' = [ethCalls EXCEPT ![c] =
                    [@ EXCEPT !.pc = "nonce", !.from = from, !.to = EthHex(to),
                              !.key = key, !.requests = 1,
                              !.amount = amt, !.retryOf = r,
                              !.nonce = EthGetNonce(EthKeyAddress(key)),
                              !.after = EthLastAccepted(EthKeyAddress(key)),
                              !.inflight = EthInFlight(from)]]
    /\ UNCHANGED <<ethTxs, ethHeight, ethReorgs, ethSent, ethPoll, ethTxObs,
                   ethConfObs>>
    /\ EthOnly

\* SendTransaction, "Get gas price": the SuggestGasPrice request
EthSendTransactionGasPrice(c) ==
    /\ ethCalls[c].pc = "nonce"
    /\ \/ ethCalls' = [ethCalls EXCEPT ![c] =
              [EthDone(@, ErrGasPrice) EXCEPT !.requests = 2]]
       \/ \E gasPrice \in EthGasPrices :
             ethCalls' = [ethCalls EXCEPT ![c] =
                 [@ EXCEPT !.pc = "priced", !.gasPrice = gasPrice, !.requests = 2]]
    /\ UNCHANGED <<ethTxs, ethHeight, ethReorgs, ethSent, ethPoll, ethTxObs,
                   ethConfObs>>
    /\ EthOnly

\* node: a pending transaction of the account with this nonce
EthPendingWith(account, nonce) ==
    {t \in EthTxsOf(account) : ethTxs[t].block = 0 /\ ethTxs[t].nonce = nonce}

\* gasLimit := uint64(21000)
EthGasLimit == 21000

\* node: the wei an account holds in the genesis block; "0xB2" holds 0.29
\* ether, the amount of a transfer but not its fee
EthGenesisBalance(account) ==
    IF account = "0xA1" THEN BMul(BFromInt(1000000000), BFromInt(1000000000))
    ELSE BMul(BFromInt(290000000), BFromInt(1000000000))

\* the wei a transaction costs its sender: the value (unless its execution
\* failed) and the fee
EthCostOf(value, gasPrice, failed) ==
    BAdd(IF failed THEN <<>> ELSE value, BFromInt(gasPrice * EthGasLimit))

\* node: the wei the transactions 1..t took from (out) and brought to (in)
\* an account
RECURSIVE EthSpentUpTo(_, _)
EthSpentUpTo(account, t) ==
    IF t = 0 THEN <<>>
    ELSE IF ethTxs[t].from = account /\ ~ethTxs[t].dropped
         THEN BAdd(EthSpentUpTo(account, t - 1),
                   EthCostOf(ethTxs[t].value, ethTxs[t].gasPrice,
                             ethTxs[t].block > 0 /\ ethTxs[t].status = 0))
         ELSE EthSpentUpTo(account, t - 1)
RECURSIVE EthReceivedUpTo(_, _)
EthReceivedUpTo(account, t) ==
    IF t = 0 THEN <<>>
    ELSE IF /\ ethTxs[t].to = account /\ ~ethTxs[t].dropped
            /\ ethTxs[t].block > 0 /\ ethTxs[t].status = 1
         THEN BAdd(EthReceivedUpTo(account, t - 1), ethTxs[t].value)
         ELSE EthReceivedUpTo(account, t - 1)

\* node: the account can pay value and fee of the transaction of the call
EthFunded(call) ==
    BCmp(BAdd(EthGenesisBalance(call.from), EthReceivedUpTo(call.from, Len(ethTxs))),
         BAdd(EthSpentUpTo(call.from, Len(ethTxs)),
              EthCostOf(EthToWei(FFromDecimal8(call.amount)), call.gasPrice, FALSE)))
        >= 0

\* node: the next nonce of the account, or a replacement at a higher price,
\* from an account that can pay
EthNodeAccepts(call) ==
    /\ \/ call.nonce = PendingNonceAt(call.from)
       \/ \E t \in EthPendingWith(call.from, call.nonce) :
              call.gasPrice > ethTxs[t].gasPrice
    /\ EthFunded(call)

\* node: the pool after accepting the transaction of call c
EthNodeAccept(c) ==
    LET call == ethCalls[c]
    IN  /\ ethTxs' = Append(
               [t \in 1..Len(ethTxs) |->
                   IF t \in EthPendingWith(call.from, call.nonce)
                   THEN [ethTxs[t] EXCEPT !.dropped = TRUE] ELSE ethTxs[t]],
               [from |-> call.from, to |-> call.to, nonce |-> call.nonce,
                gasPrice |-> call.gasPrice,
                value |-> EthToWei(FFromDecimal8(call.amount)),
                block |-> 0, status |-> 0, dropped |-> FALSE, call |-> c,
                fresh |-> call.nonce = PendingNonceAt(call.from)])
        /\ ethTxObs' = Append(ethTxObs, NoObs)
        /\ ethConfObs' = Append(ethConfObs, NoCount)

EthSentEntry(c, accepted) ==
    [call |-> c, from |-> ethCalls[c].from, nonce |-> ethCalls[c].nonce,
     accepted |-> accepted, funded |-> EthFunded(ethCalls[c])]

\* SendTransaction, "Send transaction": signing and the one broadcast request
EthSendTransactionBroadcast(c) ==
    /\ ethCalls[c].pc = "priced"
    /\ \/ \* the node accepts and answers
          /\ EthNodeAccepts(ethCalls[c])
          /\ EthNodeAccept(c)
          /\ ethSent' = Append(ethSent, EthSentEntry(c, TRUE))
          /\ ethCalls' = [ethCalls EXCEPT ![c] =
                 [EthDone(@, Ok) EXCEPT !.txid = Len(ethTxs) + 1, !.requests = 3,
                                        !.broadcasts = @ + 1]]
       \/ \* the node accepts and the reply is lost (timeout)
          /\ EthNodeAccepts(ethCalls[c])
          /\ EthNodeAccept(c)
          /\ ethSent' = Append(ethSent, EthSentEntry(c, TRUE))
          /\ ethCalls' = [ethCalls EXCEPT ![c] =
                 [EthDone(@, ErrSend) EXCEPT !.requests = 3, !.broadcasts = @ + 1]]
       \/ \* the node rejects (nonce, price, funds), or is unreachable
          /\ ethSent' = Append(ethSent, EthSentEntry(c, FALSE))
          /\ ethCalls' = [ethCalls EXCEPT ![c] =
                 [EthDone(@, ErrSend) EXCEPT !.requests = 3, !.broadcasts = @ + 1]]
          /\ UNCHANGED <<ethTxs, ethTxObs, ethConfObs>>
    /\ UNCHANGED <<ethHeight, ethReorgs, ethPoll>>
    /\ EthOnly

EthIdlePoll == [pc |-> "idle", tx |-> 0, blockNumber |-> 0, status |-> 0]

\* GetTransaction, the TransactionByHash request: a pending transaction is
\* reported at once, a mined one goes on to its receipt
EthGetTransactionByHash(t) ==
    /\ ethPoll.pc = "idle"
    /\ t \in 1..Len(ethTxs) /\ ~ethTxs[t].dropped
    /\ IF ethTxs[t].block = 0
       THEN /\ ethTxObs' = [ethTxObs EXCEPT ![t] =
                   [status |-> StatusPending, confirmations |-> BFromInt(0)]]
            /\ UNCHANGED ethPoll
       ELSE /\ ethPoll' = [EthIdlePoll EXCEPT !.pc = "gt_receipt", !.tx = t]
            /\ UNCHANGED ethTxObs
    /\ UNCHANGED <<ethTxs, ethHeight, ethReorgs, ethCalls, ethSent, ethConfObs>>
    /\ EthOnly

\* GetTransaction, the TransactionReceipt and BlockByHash requests
EthGetTransactionReceipt ==
    /\ ethPoll.pc = "gt_receipt"
    /\ IF ethTxs[ethPoll.tx].block > 0
       THEN ethPoll' = [ethPoll EXCEPT !.pc = "gt_height",
                                       !.blockNumber = ethTxs[ethPoll.tx].block,
                                       !.status = ethTxs[ethPoll.tx].status]
       ELSE \* no receipt any more: the call returns an error
            ethPoll' = EthIdlePoll
    /\ UNCHANGED <<ethTxs, ethHeight, ethReorgs, ethCalls, ethSent, ethTxObs,
                   ethConfObs>>
    /\ EthOnly

\* a status mapping that takes every mined transaction for a successful one
EthStatusOfMined(receiptStatus) == StatusConfirmed

\* the status of a transaction with a receipt: receipt.Status 1 is success
EthStatusOf(receiptStatus) ==
    IF receiptStatus = 1 THEN StatusConfirmed ELSE StatusFailed

\* GetTransaction, the BlockNumber request and the result
EthGetTransactionBlockNumber ==
    /\ ethPoll.pc = "gt_height"
    /\ ethTxObs' = [ethTxObs EXCEPT ![ethPoll.tx] =
           [status |-> EthStatusOf(ethPoll.status),
            confirmations |-> U64Sub(ethHeight, ethPoll.blockNumber)]]
    /\ ethPoll' = EthIdlePoll
    /\ UNCHANGED <<ethTxs, ethHeight, ethReorgs, ethCalls, ethSent, ethConfObs>>
    /\ EthOnly

\* GetConfirmations, the TransactionReceipt request: 0 when there is none
EthGetConfirmationsReceipt(t) ==
    /\ ethPoll.pc = "idle"
    /\ t \in 1..Len(ethTxs) /\ ~ethTxs[t].dropped
    /\ IF ethTxs[t].block = 0
       THEN /\ ethConfObs' = [ethConfObs EXCEPT ![t] =
                   [status |-> "count", confirmations |-> BFromInt(0),
                    under |-> ethTxObs[t].status]]
            /\ UNCHANGED ethPoll
       ELSE /\ ethPoll' = [EthIdlePoll EXCEPT !.pc = "gc_height", !.tx = t,
                                              !.blockNumber = ethTxs[t].block]
            /\ UNCHANGED ethConfObs
    /\ UNCHANGED <<ethTxs, ethHeight, ethReorgs, ethCalls, ethSent, ethTxObs>>
    /\ EthOnly

\* GetConfirmations, the BlockNumber request and the result
EthGetConfirmationsBlockNumber ==
    /\ ethPoll.pc = "gc_height"
    /\ ethConfObs' = [ethConfObs EXCEPT ![ethPoll.tx] =
           [status |-> "count",
            confirmations |-> U64Sub(ethHeight, ethPoll.blockNumber),
            under |-> ethTxObs[ethPoll.tx].status]]
    /\ ethPoll' = EthIdlePoll
    /\ UNCHANGED <<ethTxs, ethHeight, ethReorgs, ethCalls, ethSent, ethTxObs>>
    /\ EthOnly

\* node: a block is mined with every pending transaction; each execution
\* succeeds (receipt status 1) or fails (0)
EthMineBlock ==
    /\ ethHeight < MaxHeight
    /\ ethHeight' = ethHeight + 1
    /\ \E status \in [1..Len(ethTxs) -> {0, 1}] :
           ethTxs' = [t \in 1..Len(ethTxs) |->
               IF ethTxs[t].block = 0 /\ ~ethTxs[t].dropped
               THEN [ethTxs[t] EXCEPT !.block = ethHeight + 1, !.status = status[t]]
               ELSE ethTxs[t]]
    /\ UNCHANGED <<ethReorgs, ethCalls, ethSent, ethPoll, ethTxObs, ethConfObs>>
    /\ EthOnly

\* node: the tip block is abandoned; its transactions return to the pool
EthReorg ==
    /\ ethReorgs < MaxReorgs
    /\ ethHeight > 0
    /\ ethReorgs' = ethReorgs + 1
    /\ ethHeight' = ethHeight - 1
    /\ ethTxs' = [t \in 1..Len(ethTxs) |->
                     IF ethTxs[t].block = ethHeight
                     THEN [ethTxs[t] EXCEPT !.block = 0, !.status = 0]
                     ELSE ethTxs[t]]
    /\ UNCHANGED <<ethCalls, ethSent, ethPoll, ethTxObs, ethConfObs>>
    /\ EthOnly

EthInit ==
    /\ ethTxs = <<>>
    /\ ethHeight = 0
    /\ ethReorgs = 0
    /\ ethCalls = [c \in Calls |-> EthIdleCall]
    /\ ethSent = <<>>
    /\ ethPoll = EthIdlePoll
    /\ ethTxObs = <<>>
    /\ ethConfObs = <<>>

\* sending: overlapping SendTransaction calls against the node
BtcNext ==
    \/ \E c \in Calls : BtcSendTransactionBuild(c)
    \/ \E c \in Calls : BtcSendTransactionBroadcast(c)
    \/ BtcMineBlock

\* tracking: one SendTransaction, then polls while the chain moves
BtcTrackNext ==
    \/ BtcSendTransactionBuild(1)
    \/ BtcSendTransactionBroadcast(1)
    \/ \E t \in 1..Len(btcTxs) : BtcGetTransaction(t)
    \/ \E t \in 1..Len(btcTxs) : BtcGetConfirmations(t)
    \/ BtcMineBlock
    \/ BtcReorg
    \/ Tick

\* selection: one SendTransaction of the scenario's amount
BtcSelectNext ==
    \/ BtcSendTransactionBuildOf(1, BtcSelectAmounts)
    \/ BtcSendTransactionBroadcast(1)
    \/ BtcMineBlock

EthNext ==
    \/ \E c \in Calls : EthSendTransactionNonce(c)
    \/ \E c \in Calls : EthSendTransactionGasPrice(c)
    \/ \E c \in Calls : EthSendTransactionBroadcast(c)
    \/ EthMineBlock

EthTrackNext ==
    \/ EthSendTransactionNonce(1)
    \/ EthSendTransactionGasPrice(1)
    \/ EthSendTransactionBroadcast(1)
    \/ \E t \in 1..Len(ethTxs) : EthGetTransactionByHash(t)
    \/ EthGetTransactionReceipt
    \/ EthGetTransactionBlockNumber
    \/ \E t \in 1..Len(ethTxs) : EthGetConfirmationsReceipt(t)
    \/ EthGetConfirmationsBlockNumber
    \/ EthMineBlock
    \/ EthReorg

\* BitcoinClient.ValidateAddress
BtcValidateAddressCall(address) ==
    /\ validated' = [adapter |-> "bitcoin", address |-> address,
                     result |-> BtcValidateAddress(address)]
    /\ UNCHANGED <<btcVars, ethVars, svcVars>>

\* EthereumClient.ValidateAddress
EthValidateAddressCall(address) ==
    /\ validated' = [adapter |-> "ethereum", address |-> address,
                     result |-> EthValidateAddress(address)]
    /\ UNCHANGED <<btcVars, ethVars, svcVars>>

ValidateInit == validated = [adapter |-> "", address |-> "", result |-> FALSE]

\* one SendTransaction on each adapter, and ValidateAddress calls
SendNext ==
    \/ \E address \in BtcAddresses : BtcValidateAddressCall(address)
    \/ \E address \in EthAddresses : EthValidateAddressCall(address)
    \/ BtcSendTransactionBuild(1)
    \/ BtcSendTransactionBroadcast(1)
    \/ EthSendTransactionNonce(1)
    \/ EthSendTransactionGasPrice(1)
    \/ EthSendTransactionBroadcast(1)

(***************************************************************************)
(* GenerateAddress of both adapters.                                       *)
(***************************************************************************)
\* calls of GenerateAddress made
MaxKeys == 4

\* private keys btcec.NewPrivateKey can draw
BtcPrivateKeys == {1, 2}
\* btcutil.NewWIF(privateKey, chainParams, true).String()
BtcWIF(privateKey) == IF privateKey = 1 THEN "wifA" ELSE "wifB"
\* btcutil.NewAddressPubKeyHash(Hash160(pubKey)).EncodeAddress()
BtcKeyAddress(privateKey) == IF privateKey = 1 THEN "1A" ELSE "1B"
\* the key material a BitcoinClient holds: the struct has no field for it
BtcKeyStore == {}

\* private keys crypto.GenerateKey can draw
EthPrivateKeys == {1, 2}
\* hexutil.Encode(crypto.FromECDSA(privateKey))
EthKeyHex(privateKey) == IF privateKey = 1 THEN "keyA1" ELSE "keyB2"
\* the key material an EthereumClient holds: the struct has no field for it
EthKeyStore == {}

\* BitcoinClient.GenerateAddress: the key is drawn, the address derived, both
\* are logged and the address is returned (a failing draw returns an error
\* and changes nothing)
BtcGenerateAddress ==
    /\ Len(keyLog) < MaxKeys
    /\ \E privateKey \in BtcPrivateKeys :
           /\ keyLog' = Append(keyLog,
                  <<"Generated new Bitcoin address: %s with private key: %s",
                    BtcKeyAddress(privateKey), BtcWIF(privateKey)>>)
           /\ keyIssued' = Append(keyIssued,
                  [adapter |-> "bitcoin", address |-> BtcKeyAddress(privateKey),
                   privateKey |-> privateKey])
    /\ UNCHANGED <<btcVars, ethVars, validated, regVars, limVars, rateVars,
                   fraudVars>>

\* EthereumClient.GenerateAddress
EthGenerateAddress ==
    /\ Len(keyLog) < MaxKeys
    /\ \E privateKey \in EthPrivateKeys :
           /\ keyLog' = Append(keyLog,
                  <<"Generated new Ethereum address: %s with private key: %s",
                    EthKeyAddress(EthKeyHex(privateKey)), EthKeyHex(privateKey)>>)
           /\ keyIssued' = Append(keyIssued,
                  [adapter |-> "ethereum",
                   address |-> EthKeyAddress(EthKeyHex(privateKey)),
                   privateKey |-> privateKey])
    /\ UNCHANGED <<btcVars, ethVars, validated, regVars, limVars, rateVars,
                   fraudVars>>

KeysInit == keyLog = <<>> /\ keyIssued = <<>>

KeysNext == BtcGenerateAddress \/ EthGenerateAddress

(***************************************************************************)
(* blockchain.go: BlockchainClientFactory.                                 *)
(***************************************************************************)
\* RegisterClient calls made
MaxRegs == 3

RegCurrencies == {"BTC", "ETH"}
RegClients == {"client1", "client2"}
\* the nil BlockchainClient
RegNil == "nil"

\* what a step of the factory leaves alone
RegOnly ==
    UNCHANGED <<btcVars, ethVars, validated, keyVars, limVars, rateVars, fraudVars>>

\* a registration that keeps the client a currency already has
RegisterClientOnce(clients, currency, client) ==
    IF currency \in DOMAIN clients THEN clients
    ELSE [c \in DOMAIN clients \cup {currency} |->
             IF c = currency THEN client ELSE clients[c]]

\* f.clients[currency] = client
RegisterClientMap(clients, currency, client) ==
    [c \in DOMAIN clients \cup {currency} |->
        IF c = currency THEN client ELSE clients[c]]

\* the orders a range over a map with these keys can take
MapOrders(keys) ==
    {order \in [1..Cardinality(keys) -> keys] :
        \A i, j \in 1..Cardinality(keys) : order[i] = order[j] => i = j}

RegisterClient(currency, client) ==
    /\ Len(regLog) < MaxRegs
    /\ regClients' = RegisterClientMap(regClients, currency, client)
    /\ regLog' = Append(regLog, [currency |-> currency, client |-> client])
    /\ UNCHANGED <<regGot, regSupported>>
    /\ RegOnly

GetClient(currency) ==
    /\ regGot' = IF currency \in DOMAIN regClients
                 THEN [status |-> "returned", currency |-> currency,
                       client |-> regClients[currency], err |-> FALSE,
                       at |-> Len(regLog)]
                 ELSE [status |-> "returned", currency |-> currency,
                       client |-> RegNil, err |-> TRUE, at |-> Len(regLog)]
    /\ UNCHANGED <<regClients, regLog, regSupported>>
    /\ RegOnly

GetSupportedCurrencies ==
    /\ \E order \in MapOrders(DOMAIN regClients) :
           regSupported' = [status |-> "returned", currencies |-> order,
                            at |-> Len(regLog)]
    /\ UNCHANGED <<regClients, regLog, regGot>>
    /\ RegOnly

\* NewBlockchainClientFactory
RegInit ==
    /\ regClients = [c \in {} |-> RegNil]
    /\ regLog = <<>>
    /\ regGot = [status |-> "none", currency |-> "", client |-> RegNil,
                 err |-> FALSE, at |-> 0]
    /\ regSupported = [status |-> "none", currencies |-> <<>>, at |-> 0]

RegNext ==
    \/ \E currency \in RegCurrencies, client \in RegClients :
           RegisterClient(currency, client)
    \/ \E currency \in RegCurrencies : GetClient(currency)
    \/ GetSupportedCurrencies

(***************************************************************************)
(* fraud_detection.go: RateLimiter.                                        *)
(***************************************************************************)
\* CheckLimit calls made, the greatest time, the greatest limit
MaxLimCalls == 4
MaxLimNow == 3
MaxLimit == 2
\* RateLimiter.window, in ticks
LimWindow == 2

LimKeys == {"k1", "k2"}

\* what a step of the rate limiter leaves alone
LimOnly ==
    UNCHANGED <<btcVars, ethVars, validated, keyVars, regVars, rateVars, fraudVars>>

\* "Filter out old requests": the times after the cutoff, in order
LimFilter(times, cutoff) == SelectSeq(times, LAMBDA t : t > cutoff)

\* the body of CheckLimit (and of checkVelocity, which repeats it): the
\* result and the record of the key afterwards
LimCheck(requests, key, now, window, maxRequests) ==
    IF key \notin DOMAIN requests
    THEN [ok |-> TRUE, times |-> <<now>>]
    ELSE IF Len(LimFilter(requests[key], now - window)) >= maxRequests
         THEN [ok |-> FALSE, times |-> LimFilter(requests[key], now - window)]
         ELSE [ok |-> TRUE,
               times |-> Append(LimFilter(requests[key], now - window), now)]

\* r.requests[key] = times
LimPut(requests, key, times) ==
    [k \in DOMAIN requests \cup {key} |-> IF k = key THEN times ELSE requests[k]]

\* the record of a key, empty when the map has none
LimTimes(requests, key) == IF key \in DOMAIN requests THEN requests[key] ELSE <<>>

\* RateLimiter.CheckLimit, under its mutex
CheckLimit(key) ==
    /\ Len(limCalls) < MaxLimCalls
    /\ limRequests' = LimPut(limRequests, key,
           LimCheck(limRequests, key, limNow, LimWindow, limMax).times)
    /\ limCalls' = Append(limCalls,
           [key |-> key, at |-> limNow,
            ok |-> LimCheck(limRequests, key, limNow, LimWindow, limMax).ok])
    /\ limLast' = [key |-> key,
                   ok |-> LimCheck(limRequests, key, limNow, LimWindow, limMax).ok,
                   before |-> LimTimes(limRequests, key),
                   after |-> LimTimes(limRequests', key)]
    /\ UNCHANGED <<limMax, limNow>>
    /\ LimOnly

\* time passes
LimTick ==
    /\ limNow < MaxLimNow
    /\ limNow' = limNow + 1
    /\ UNCHANGED <<limMax, limRequests, limCalls, limLast>>
    /\ LimOnly

\* NewRateLimiter(window, maxRequests)
LimInitWith(limits) ==
    /\ limMax \in limits
    /\ limRequests = [k \in {} |-> <<>>]
    /\ limNow = 0
    /\ limCalls = <<>>
    /\ limLast = [key |-> "", ok |-> TRUE, before |-> <<>>, after |-> <<>>]

LimInit == LimInitWith({MaxLimit})

LimNext == (\E key \in LimKeys : CheckLimit(key)) \/ LimTick

(***************************************************************************)
(* The exchange rate service.                                              *)
(***************************************************************************)
\* ExchangeRate objects allocated, calls that apply a spread, the greatest
\* time
MaxRates == 2
MaxSpreads == 2
MaxRateNow == 2
\* ExchangeRateService.cacheDuration, in ticks
CacheDuration == 2

ErrRateNotFound == "exchange rate not found"
ErrProviderUnavailable == "exchange rate provider unavailable"
ErrInvalidCurrency == "invalid currency"

RateProviderNames == {"CoinGecko", "Other"}
\* fmt.Sprintf("%s-%s", baseCurrency, targetCurrency)
RatePairs == {"BTC-USD", "ETH-USD"}
\* the rate a provider quotes
RateQuote(provider) == IF provider = "CoinGecko" THEN FFromInt(100) ELSE FFromInt(200)
\* the error a failing provider returns
RateError(provider) ==
    IF provider = "CoinGecko" THEN ErrProviderUnavailable ELSE ErrInvalidCurrency
\* spreadPercentage values asked for
RateSpreads == {10}
\* amounts converted
RateAmounts == {3}
\* the nil *ExchangeRate
RateNilPtr == 0

\* what a step of the exchange rate service leaves alone
RateOnly ==
    UNCHANGED <<btcVars, ethVars, validated, keyVars, regVars, limVars, fraudVars>>

\* GetRate, "Check cache first if enabled"
RateCached(enabled, cache, heap, cacheKey, now) ==
    /\ enabled
    /\ cacheKey \in DOMAIN cache
    /\ now - heap[cache[cacheKey]].timestamp < CacheDuration

\* the providers that answer without error, by position
RateAnswering(providers, answers) ==
    {i \in 1..Len(providers) : answers[providers[i]]}

\* the provider that answers among those asked last
RateLastAnswering(providers, answers) ==
    CHOOSE i \in RateAnswering(providers, answers) :
        \A j \in RateAnswering(providers, answers) : j <= i

\* GetRate, "Try each provider until we get a rate": the first that answers
RateFirstAnswering(providers, answers) ==
    CHOOSE i \in RateAnswering(providers, answers) :
        \A j \in RateAnswering(providers, answers) : i <= j

\* s.cache[cacheKey] = rate
RateCachePut(cache, cacheKey, ptr) ==
    [k \in DOMAIN cache \cup {cacheKey} |-> IF k = cacheKey THEN ptr ELSE cache[k]]

\* the ExchangeRate a provider allocates: Timestamp is time.Now(); quoted
\* keeps the rate as the provider gave it
RateObject(provider, cacheKey, now) ==
    [pair |-> cacheKey, rate |-> RateQuote(provider), source |-> provider,
     timestamp |-> now, quoted |-> RateQuote(provider)]

\* GetRate as a function of the state and of which providers answer: the
\* pointer and error returned, the heap and cache afterwards, the providers
\* asked
RateGet(enabled, providers, heap, cache, cacheKey, now, answers) ==
    IF RateCached(enabled, cache, heap, cacheKey, now)
    THEN [ptr |-> cache[cacheKey], err |-> "", heap |-> heap, cache |-> cache,
          asked |-> 0]
    ELSE IF RateAnswering(providers, answers) # {}
    THEN [ptr |-> Len(heap) + 1, err |-> "",
          heap |-> Append(heap,
              RateObject(providers[RateFirstAnswering(providers, answers)],
                         cacheKey, now)),
          cache |-> IF enabled THEN RateCachePut(cache, cacheKey, Len(heap) + 1)
                    ELSE cache,
          asked |-> RateFirstAnswering(providers, answers)]
    ELSE [ptr |-> RateNilPtr,
          err |-> IF providers = <<>> THEN ErrRateNotFound
                  ELSE RateError(providers[Len(providers)]),
          heap |-> heap, cache |-> cache, asked |-> Len(providers)]

\* spreadFactor := 1.0 + (spreadPercentage / 100.0)
RateSpreadFactor(spreadPercentage) ==
    FAdd(FFromInt(1), FFromDecimal8(spreadPercentage * 1000000))

\* rate.Rate = rate.Rate * spreadFactor, through the pointer GetRate returned
RateApplySpread(heap, ptr, spreadPercentage) ==
    [heap EXCEPT ![ptr].rate = FMul(@, RateSpreadFactor(spreadPercentage))]

\* the result a call leaves for the properties: got is what GetRate gave
RateResult(op, cacheKey, got, heap, answers, value, spreads) ==
    [op |-> op, pair |-> cacheKey, ptr |-> got.ptr, err |-> got.err,
     rate |-> IF got.ptr = RateNilPtr THEN FZero ELSE heap[got.ptr].rate,
     asked |-> got.asked,
     answers |-> [n \in RateProviderNames |-> got.asked > 0 /\ answers[n]],
     value |-> value,
     spreads |-> spreads]

\* RegisterProvider
RateRegisterProvider(provider) ==
    /\ provider \notin Range(rateProviders)
    /\ rateProviders' = Append(rateProviders, provider)
    /\ UNCHANGED <<rateCacheEnabled, rateHeap, rateCache, rateNow, rateLast>>
    /\ RateOnly

\* ExchangeRateService.GetRate
RateGetRate(cacheKey) ==
    /\ Len(rateHeap) < MaxRates
    /\ \E answers \in [RateProviderNames -> BOOLEAN] :
         LET got == RateGet(rateCacheEnabled, rateProviders, rateHeap, rateCache,
                            cacheKey, rateNow, answers)
         IN  /\ rateHeap' = got.heap
             /\ rateCache' = got.cache
             /\ rateLast' = RateResult("GetRate", cacheKey, got, got.heap, answers,
                                       FZero, rateLast.spreads)
    /\ UNCHANGED <<rateCacheEnabled, rateProviders, rateNow>>
    /\ RateOnly

\* ExchangeRateService.GetRateWithSpread
RateGetRateWithSpread(cacheKey, spreadPercentage) ==
    /\ Len(rateHeap) < MaxRates
    /\ rateLast.spreads < MaxSpreads
    /\ \E answers \in [RateProviderNames -> BOOLEAN] :
         LET got == RateGet(rateCacheEnabled, rateProviders, rateHeap, rateCache,
                            cacheKey, rateNow, answers)
         IN  /\ rateHeap' = IF got.ptr = RateNilPtr THEN got.heap
                            ELSE RateApplySpread(got.heap, got.ptr, spreadPercentage)
             /\ rateCache' = got.cache
             /\ rateLast' = RateResult("GetRateWithSpread", cacheKey, got, rateHeap',
                                       answers, FZero, rateLast.spreads + 1)
    /\ UNCHANGED <<rateCacheEnabled, rateProviders, rateNow>>
    /\ RateOnly

\* ExchangeRateService.ConvertAmountWithSpread
RateConvertAmountWithSpread(amount, cacheKey, spreadPercentage) ==
    /\ Len(rateHeap) < MaxRates
    /\ rateLast.spreads < MaxSpreads
    /\ \E answers \in [RateProviderNames -> BOOLEAN] :
         LET got == RateGet(rateCacheEnabled, rateProviders, rateHeap, rateCache,
                            cacheKey, rateNow, answers)
         IN  /\ rateHeap' = IF got.ptr = RateNilPtr THEN got.heap
                            ELSE RateApplySpread(got.heap, got.ptr, spreadPercentage)
             /\ rateCache' = got.cache
             /\ rateLast' = RateResult("ConvertAmountWithSpread", cacheKey, got,
                    rateHeap', answers,
                    IF got.ptr = RateNilPtr THEN FZero
                    ELSE FMul(FFromInt(amount), rateHeap'[got.ptr].rate),
                    rateLast.spreads + 1)
    /\ UNCHANGED <<rateCacheEnabled, rateProviders, rateNow>>
    /\ RateOnly

\* time passes
RateTick ==
    /\ rateNow < MaxRateNow
    /\ rateNow' = rateNow + 1
    /\ UNCHANGED <<rateCacheEnabled, rateProviders, rateHeap, rateCache, rateLast>>
    /\ RateOnly

\* NewExchangeRateService(cacheEnabled, cacheDuration)
RateInitWith(enabled) ==
    /\ rateCacheEnabled \in enabled
    /\ rateProviders = <<>>
    /\ rateHeap = <<>>
    /\ rateCache = [k \in {} |-> RateNilPtr]
    /\ rateNow = 0
    /\ rateLast = [op |-> "", pair |-> "", ptr |-> RateNilPtr, err |-> "",
                   rate |-> FZero, asked |-> 0,
                   answers |-> [n \in RateProviderNames |-> FALSE],
                   value |-> FZero, spreads |-> 0]

RateInit == RateInitWith({TRUE})

RateNext ==
    \/ \E provider \in RateProviderNames : RateRegisterProvider(provider)
    \/ \E cacheKey \in RatePairs : RateGetRate(cacheKey)
    \/ \E cacheKey \in RatePairs, spreadPercentage \in RateSpreads :
           RateGetRateWithSpread(cacheKey, spreadPercentage)
    \/ \E amount \in RateAmounts, cacheKey \in RatePairs,
           spreadPercentage \in RateSpreads :
           RateConvertAmountWithSpread(amount, cacheKey, spreadPercentage)
    \/ RateTick

(***************************************************************************)
(* fraud_detection.go: FraudDetectionService.                              *)
(***************************************************************************)
\* BlockCountry and UnblockCountry calls made, the greatest time
MaxFraudOps == 3
MaxFraudNow == 2
\* config.VelocityCheckLimit and config.VelocityCheckWindow, in ticks
FraudVelocityLimit == 1
FraudVelocityWindow == 2

ErrRateLimitExceeded == "rate limit exceeded"
ErrBlockedIP == "IP address is blocked"
ErrBlockedCountry == "country is blocked"

FraudCountryCodes == {"SG", "sg", "MY", "my"}
\* strings.ToUpper
FraudToUpper(countryCode) ==
    IF countryCode \in {"SG", "sg"} THEN "SG" ELSE "MY"
\* the BlockedCountries lists a config is given
FraudConfigCountries == {<<>>, <<"SG">>, <<"sg">>, <<"MY", "SG">>}
FraudIPs == {"10.0.0.1", "192.168.0.1"}
\* the BlockedIPs lists a config is given
FraudConfigIPs == {<<>>, <<"10.0.0.0/8">>}
FraudUsers == {"u1"}

\* what a step of the fraud detection service leaves alone
FraudOnly ==
    UNCHANGED <<btcVars, ethVars, validated, keyVars, regVars, limVars, rateVars>>

\* net.ParseCIDR(blockedIP) contains net.ParseIP(ipAddress)
FraudCidrContains(blockedIP, ipAddress) ==
    blockedIP = "10.0.0.0/8" /\ ipAddress = "10.0.0.1"

\* IsIPBlocked: an exact match or a CIDR block that contains the address
IsIPBlocked(ipAddress) ==
    \/ ipAddress \in fraudIpCache
    \/ \E blockedIP \in fraudIpCache : FraudCidrContains(blockedIP, ipAddress)

\* s.countryCache[strings.ToUpper(countryCode)]
FraudLookup(cache, countryCode) == FraudToUpper(countryCode) \in cache

\* "Update config": the list without the entries equal to countryCode
FraudWithout(countries, countryCode) ==
    SelectSeq(countries, LAMBDA country : country # countryCode)

\* the codes of a list, in upper case
FraudUpperOf(countries) == {FraudToUpper(countries[i]) : i \in 1..Len(countries)}

\* FraudDetectionService.IsCountryBlocked
IsCountryBlocked(countryCode) ==
    /\ fraudLast' = [op |-> "IsCountryBlocked", country |-> countryCode, ip |-> "",
                     blocked |-> FraudLookup(fraudCountryCache, countryCode),
                     err |-> "", expected |-> fraudBlocked]
    /\ UNCHANGED <<fraudCountries, fraudCountryCache, fraudIpCache, fraudVelocity,
                   fraudTransactions, fraudNow, fraudBlocked, fraudOps>>
    /\ FraudOnly

\* FraudDetectionService.BlockCountry
BlockCountry(countryCode) ==
    /\ fraudOps < MaxFraudOps
    /\ fraudOps' = fraudOps + 1
    /\ fraudCountryCache' = fraudCountryCache \cup {FraudToUpper(countryCode)}
    /\ fraudCountries' = Append(fraudCountries, FraudToUpper(countryCode))
    /\ fraudBlocked' = fraudBlocked \cup {FraudToUpper(countryCode)}
    /\ UNCHANGED <<fraudIpCache, fraudVelocity, fraudTransactions, fraudNow,
                   fraudLast>>
    /\ FraudOnly

\* FraudDetectionService.UnblockCountry
UnblockCountry(countryCode) ==
    /\ fraudOps < MaxFraudOps
    /\ fraudOps' = fraudOps + 1
    /\ fraudCountryCache' = fraudCountryCache \ {FraudToUpper(countryCode)}
    /\ fraudCountries' = FraudWithout(fraudCountries, FraudToUpper(countryCode))
    /\ fraudBlocked' = fraudBlocked \ {FraudToUpper(countryCode)}
    /\ UNCHANGED <<fraudIpCache, fraudVelocity, fraudTransactions, fraudNow,
                   fraudLast>>
    /\ FraudOnly

\* FraudDetectionService.CheckTransaction: the IP, the country, then
\* checkVelocity, which alone changes the state
CheckTransaction(userID, ipAddress, countryCode) ==
    /\ IF IsIPBlocked(ipAddress)
       THEN /\ fraudLast' = [op |-> "CheckTransaction", country |-> countryCode,
                             ip |-> ipAddress, blocked |-> FALSE,
                             err |-> ErrBlockedIP, expected |-> fraudBlocked]
            /\ UNCHANGED fraudTransactions
       ELSE IF FraudLookup(fraudCountryCache, countryCode)
       THEN /\ fraudLast' = [op |-> "CheckTransaction", country |-> countryCode,
                             ip |-> ipAddress, blocked |-> TRUE,
                             err |-> ErrBlockedCountry, expected |-> fraudBlocked]
            /\ UNCHANGED fraudTransactions
       ELSE IF fraudVelocity
       THEN /\ fraudTransactions' = LimPut(fraudTransactions, userID,
                   LimCheck(fraudTransactions, userID, fraudNow,
                            FraudVelocityWindow, FraudVelocityLimit).times)
            /\ fraudLast' = [op |-> "CheckTransaction", country |-> countryCode,
                             ip |-> ipAddress, blocked |-> FALSE,
                             err |-> IF LimCheck(fraudTransactions, userID, fraudNow,
                                         FraudVelocityWindow, FraudVelocityLimit).ok
                                     THEN "" ELSE ErrRateLimitExceeded,
                             expected |-> fraudBlocked]
       ELSE /\ fraudLast' = [op |-> "CheckTransaction", country |-> countryCode,
                             ip |-> ipAddress, blocked |-> FALSE, err |-> "",
                             expected |-> fraudBlocked]
            /\ UNCHANGED fraudTransactions
    /\ UNCHANGED <<fraudCountries, fraudCountryCache, fraudIpCache, fraudVelocity,
                   fraudNow, fraudBlocked, fraudOps>>
    /\ FraudOnly

\* time passes
FraudTick ==
    /\ fraudNow < MaxFraudNow
    /\ fraudNow' = fraudNow + 1
    /\ UNCHANGED <<fraudCountries, fraudCountryCache, fraudIpCache, fraudVelocity,
                   fraudTransactions, fraudBlocked, fraudOps, fraudLast>>
    /\ FraudOnly

\* NewFraudDetectionService(config): the caches take the config's entries as
\* they are written
FraudInitWith(countryLists, ipLists, velocity) ==
    /\ fraudCountries \in countryLists
    /\ fraudCountryCache = Range(fraudCountries)
    /\ \E ips \in ipLists : fraudIpCache = Range(ips)
    /\ fraudVelocity \in velocity
    /\ fraudTransactions = [u \in {} |-> <<>>]
    /\ fraudNow = 0
    /\ fraudBlocked = FraudUpperOf(fraudCountries)
    /\ fraudOps = 0
    /\ fraudLast = [op |-> "", country |-> "", ip |-> "", blocked |-> FALSE,
                    err |-> "", expected |-> {}]

\* DefaultFraudDetectionConfig
FraudInit == FraudInitWith({<<>>}, {<<>>}, {TRUE})

FraudNext ==
    \/ \E countryCode \in FraudCountryCodes : IsCountryBlocked(countryCode)
    \/ \E countryCode \in FraudCountryCodes : BlockCountry(countryCode)
    \/ \E countryCode \in FraudCountryCodes : UnblockCountry(countryCode)
    \/ \E userID \in FraudUsers, ipAddress \in FraudIPs,
           countryCode \in FraudCountryCodes :
           CheckTransaction(userID, ipAddress, countryCode)
    \/ FraudTick

SvcInit == KeysInit /\ RegInit /\ LimInit /\ RateInit /\ FraudInit

Init == BtcInit /\ EthInit /\ ValidateInit /\ SvcInit
\* the Bitcoin node at rest under the Ethereum specifications
InitEth == BtcInitFrom({20000}) /\ EthInit /\ ValidateInit /\ SvcInit
\* both nodes with their genesis ledgers, each address of the Bitcoin node
\* holding outputs of 0.0002
InitSend == BtcInitFrom({20000}) /\ EthInit /\ ValidateInit /\ SvcInit
\* the selection scenario, the Ethereum node at rest
InitSelect == BtcSelectInit /\ EthInit /\ ValidateInit /\ SvcInit
SpecBtc == Init /\ [][BtcNext]_vars
SpecSend == InitSend /\ [][SendNext]_vars
SpecBtcSelect == InitSelect /\ [][BtcSelectNext]_vars
SpecBtcTrack == Init /\ [][BtcTrackNext]_vars
SpecEth == InitEth /\ [][EthNext]_vars
SpecEthTrack == InitEth /\ [][EthTrackNext]_vars
\* the services beside the adapters, both nodes at rest
SpecKeys == InitEth /\ [][KeysNext]_vars
SpecRegistry == InitEth /\ [][RegNext]_vars
\* a rate limiter of any limit from 0
InitLimiter ==
    /\ BtcInitFrom({20000}) /\ EthInit /\ ValidateInit /\ KeysInit /\ RegInit
    /\ LimInitWith(0..MaxLimit) /\ RateInit /\ FraudInit
SpecLimiter == InitLimiter /\ [][LimNext]_vars
\* an exchange rate service with or without its cache
InitRates ==
    /\ BtcInitFrom({20000}) /\ EthInit /\ ValidateInit /\ KeysInit /\ RegInit
    /\ LimInit /\ RateInitWith(BOOLEAN) /\ FraudInit
SpecRates == InitRates /\ [][RateNext]_vars
\* a fraud detection service built from any of the configs
InitFraud ==
    /\ BtcInitFrom({20000}) /\ EthInit /\ ValidateInit /\ KeysInit /\ RegInit
    /\ LimInit /\ RateInit
    /\ FraudInitWith(FraudConfigCountries, FraudConfigIPs, BOOLEAN)
SpecFraud == InitFraud /\ [][FraudNext]_vars

(***************************************************************************)
(* Properties.                                                             *)
(***************************************************************************)
\* the satoshi of the outputs a transaction consumes
RECURSIVE BtcInputSatoshi(_)
BtcInputSatoshi(ins) ==
    IF ins = <<>> THEN 0
    ELSE btcOutputs[Head(ins)].sat + BtcInputSatoshi(Tail(ins))

\* the satoshi of the outputs a transaction emits
BtcOutputSatoshi(tx) ==
    tx.amountSatoshi + (IF tx.hasChange THEN tx.changeSatoshi ELSE 0)

\* C1: for every transaction a successful SendTransaction broadcast on the
\* unspent-output ledger, the consumed inputs sum to the emitted outputs
\* (recipient and change) plus the fee, exactly, in satoshi.
C1_InputsEqualOutputsPlusFee ==
    \A t \in 1..Len(btcTxs) :
        BtcInputSatoshi(btcTxs[t].ins) = BtcOutputSatoshi(btcTxs[t]) + BtcFeeSatoshi

\* C1, the case: a transaction was broadcast and accepted
C1_Witness ==
    \E c \in Calls : btcCalls[c].pc = "done" /\ btcCalls[c].result = Ok

\* calls c1 and c2 spend from one address, c1 was between build and
\* broadcast when c2 listed the unspent outputs, and the two amounts with
\* their fees exceed what that listing held for the address
BtcOverdrawn(c1, c2) ==
    /\ c1 # c2
    /\ btcCalls[c1].pc = "done" /\ btcCalls[c2].pc = "done"
    /\ c1 \in btcCalls[c2].inflight
    /\ btcCalls[c1].amount + btcCalls[c2].amount + 2 * BtcFeeSatoshi
           > btcCalls[c2].balance

\* C2 as stated: of two overlapping sends from one address whose amounts with
\* fees exceed the balance, exactly one succeeds and the other fails with
\* InsufficientBalance or a conflict error.
C2_ExactlyOneSucceeds ==
    \A c1, c2 \in Calls :
        BtcOverdrawn(c1, c2) =>
            \/ /\ btcCalls[c1].result = Ok
               /\ btcCalls[c2].result \in {ErrInsufficientBalance, ErrBroadcast}
            \/ /\ btcCalls[c2].result = Ok
               /\ btcCalls[c1].result \in {ErrInsufficientBalance, ErrBroadcast}

\* C2, amended: of two overlapping sends from one address whose amounts with
\* fees exceed the balance, never both succeed; a send that does not succeed
\* fails with InsufficientBalance or with the error of the broadcast (both
\* may fail).
C2_AtMostOneSucceeds ==
    \A c1, c2 \in Calls :
        BtcOverdrawn(c1, c2) =>
            /\ ~(btcCalls[c1].result = Ok /\ btcCalls[c2].result = Ok)
            /\ \A c \in {c1, c2} :
                   btcCalls[c].result \in {Ok, ErrInsufficientBalance, ErrBroadcast}

\* C2, the case: two overlapping overdrawing sends, one succeeded, the other
\* was refused by the node
C2_Witness ==
    \E c1, c2 \in Calls :
        /\ BtcOverdrawn(c1, c2)
        /\ btcCalls[c1].result = Ok
        /\ btcCalls[c2].result = ErrBroadcast
        /\ \A t \in 1..Len(btcTxs) : btcTxs[t].call # c2

\* C3: two SendTransaction calls in flight for the same sending address never
\* select overlapping unspent outputs (selection is serialized per address).
C3_NoOverlappingSelection ==
    \A c1, c2 \in Calls :
        (/\ c1 # c2
         /\ btcCalls[c1].pc = "built" /\ btcCalls[c2].pc = "built"
         /\ btcCalls[c1].from = btcCalls[c2].from)
        => Range(btcCalls[c1].ins) \cap Range(btcCalls[c2].ins) = {}

\* C3, the case: two calls of one address are between selection and broadcast
C3_Witness ==
    \E c1, c2 \in Calls :
        /\ c1 # c2
        /\ btcCalls[c1].pc = "built" /\ btcCalls[c2].pc = "built"
        /\ btcCalls[c1].from = btcCalls[c2].from

\* C4: the transactions broadcast from one account-ledger address carry
\* distinct nonces, strictly increasing in broadcast order and without gaps.
\* the calls of broadcasts i and j overlapped: one was between its nonce and
\* its broadcast when the other fetched its nonce
EthOverlapping(i, j) ==
    /\ ethSent[i].from = ethSent[j].from
    /\ \/ ethSent[i].call \in ethCalls[ethSent[j].call].inflight
       \/ ethSent[j].call \in ethCalls[ethSent[i].call].inflight

C4_DistinctGapFreeNonces ==
    \A i, j \in 1..Len(ethSent) :
        (i < j /\ EthOverlapping(i, j)) => ethSent[i].nonce < ethSent[j].nonce

\* C4, the case: two overlapping calls broadcast from one address
C4_Witness ==
    \E i, j \in 1..Len(ethSent) : i < j /\ EthOverlapping(i, j)

\* C5: when a send from an address succeeded using nonce N, which was the
\* address's next nonce, the send that follows it from the same address uses
\* nonce N + 1, never N and never N + 2.
C5_NextNonceFollows ==
    \A c \in Calls :
        (/\ ethCalls[c].pc \in {"nonce", "priced", "done"}
         /\ ethCalls[c].after # 0
         /\ ethTxs[ethCalls[c].after].fresh)
        => ethCalls[c].nonce = ethTxs[ethCalls[c].after].nonce + 1

\* C5, the case: a send succeeded, and the send that followed it succeeded
\* with the next nonce
C5_Witness ==
    \E c1, c2 \in Calls :
        /\ ethCalls[c1].pc = "done" /\ ethCalls[c1].result = Ok
        /\ ethCalls[c2].pc = "done" /\ ethCalls[c2].result = Ok
        /\ ethCalls[c2].after = ethCalls[c1].txid
        /\ ethCalls[c2].nonce = ethTxs[ethCalls[c1].txid].nonce + 1

\* the node holds a transaction that call c broadcast
BtcLanded(c) == \E t \in 1..Len(btcTxs) : btcTxs[t].call = c

\* C6: a send that is retried after its broadcast timed out does not put a
\* second transaction on the ledger: at most one transaction exists for the
\* intent.
C6_RetryIsIdempotent ==
    \A c \in Calls :
        btcCalls[c].retryOf # 0 => ~(BtcLanded(btcCalls[c].retryOf) /\ BtcLanded(c))

\* C6, the case: a send whose broadcast failed was retried to the end
C6_Witness ==
    \E c \in Calls : btcCalls[c].retryOf # 0 /\ btcCalls[c].pc = "done"

\* C7: for a tracked transaction, successive GetConfirmations results never
\* decrease while the transaction is Pending, and a result read after
\* GetTransaction reported it Confirmed or Failed does not change any more.
C7_ConfirmationsMonotoneThenFrozen ==
    [][\A t \in 1..Len(btcConfObs) :
          (btcConfObs[t].status = "count" /\ btcConfObs'[t].status = "count") =>
              IF btcConfObs[t].under \in {StatusConfirmed, StatusFailed}
              THEN btcConfObs'[t].confirmations = btcConfObs[t].confirmations
              ELSE BCmp(btcConfObs'[t].confirmations,
                        btcConfObs[t].confirmations) >= 0]_vars

\* C7, the case: the count of a transaction was read after GetTransaction
\* had reported it Confirmed
C7_Witness ==
    \E t \in 1..Len(btcConfObs) :
        btcConfObs[t].status = "count" /\ btcConfObs[t].under = StatusConfirmed

\* C8: the status GetTransaction reports moves only from Pending to Confirmed
\* or Failed; once Confirmed or Failed it stays what it is.
C8_StatusMonotone ==
    [][\A t \in 1..Len(btcTxObs) :
          btcTxObs[t].status \in {StatusConfirmed, StatusFailed} =>
              btcTxObs'[t].status = btcTxObs[t].status]_vars

\* C8, the case: a transaction was reported Confirmed
C8_Witness ==
    \E t \in 1..Len(btcTxObs) : btcTxObs[t].status = StatusConfirmed

\* C9: GetTransaction reports Confirmed only with a confirmation count that
\* reaches the finality threshold (1 is the least threshold); an included
\* transaction with 0 confirmations is Pending.
C9_ConfirmedOnlyAtThreshold ==
    \A t \in 1..Len(ethTxObs) :
        ethTxObs[t].status = StatusConfirmed =>
            BCmp(ethTxObs[t].confirmations, BFromInt(1)) >= 0

\* C9, the case: an included transaction was polled
C9_Witness ==
    \E t \in 1..Len(ethTxObs) :
        ethTxs[t].block > 0 /\ ethTxObs[t].status = StatusConfirmed

\* the status the specification gives a transaction that is never included;
\* TransactionStatus has no such member
StatusConfirmationTimeout == "confirmation_timeout"

\* C10: a poll of a transaction that was never included, made once the
\* confirmation timeout has elapsed since the broadcast, reports
\* ConfirmationTimeout.
C10_TimeoutReported ==
    [][\A t \in 1..Len(btcTxs) :
          (/\ btcTxObs'[t] # btcTxObs[t]
           /\ ~btcTxs[t].everIncluded
           /\ clock >= btcTxs[t].sentAt + ConfirmTimeout)
          => btcTxObs'[t].status = StatusConfirmationTimeout]_vars

\* C10, the case: a never-included transaction polled after the timeout
C10_Witness ==
    \E t \in 1..Len(btcTxs) :
        /\ ~btcTxs[t].everIncluded
        /\ clock >= btcTxs[t].sentAt + ConfirmTimeout
        /\ btcTxObs[t].status = StatusPending

\* the listed outputs of an address
BtcListedOf(from) ==
    {o \in 1..Len(btcOutputs) :
        /\ btcOutputs[o].addr = from /\ btcOutputs[o].spentBy = 0
        /\ BtcOutputConfirmations(o) >= 1}

\* the rule of the specification: outputs in descending order of amount until
\* their sum reaches the target
RECURSIVE BtcLargestFirst(_, _, _)
BtcLargestFirst(avail, need, picked) ==
    IF need <= 0 \/ avail = {} THEN picked
    ELSE LET o == CHOOSE x \in avail :
                      \A y \in avail :
                          \/ btcOutputs[y].sat < btcOutputs[x].sat
                          \/ btcOutputs[y].sat = btcOutputs[x].sat /\ x <= y
         IN  BtcLargestFirst(avail \ {o}, need - btcOutputs[o].sat, picked \cup {o})

\* the satoshi of a set of outputs
RECURSIVE BtcSetSatoshi(_)
BtcSetSatoshi(outs) ==
    IF outs = {} THEN 0
    ELSE LET o == CHOOSE x \in outs : TRUE
         IN  btcOutputs[o].sat + BtcSetSatoshi(outs \ {o})

\* two sets of outputs hold the same amounts
BtcSameAmounts(a, b) ==
    \A o \in a \cup b :
        Cardinality({x \in a : btcOutputs[x].sat = btcOutputs[o].sat})
            = Cardinality({x \in b : btcOutputs[x].sat = btcOutputs[o].sat})

\* C11: input selection takes the unspent outputs in descending order of
\* amount: with outputs of 5, 3 and 1 fees on the sending address and 6 fees
\* requested, the built transaction consumes exactly {5, 3} and emits a change
\* output of 1 fee.
C11_LargestFirstSelection ==
    \A c \in Calls :
        btcCalls[c].pc = "built" =>
            LET want == BtcLargestFirst(BtcListedOf(btcCalls[c].from),
                                        btcCalls[c].amount + BtcFeeSatoshi, {})
                rest == BtcSetSatoshi(want) - btcCalls[c].amount - BtcFeeSatoshi
            IN  /\ BtcSameAmounts(Range(btcCalls[c].ins), want)
                /\ btcCalls[c].hasChange = (rest > 0)
                /\ btcCalls[c].hasChange => btcCalls[c].changeSatoshi = rest

\* C11, the case: the scenario's outputs 5, 3 and 1, listed in another order,
\* and a transaction built for 6
C11_Witness ==
    /\ btcCalls[1].pc = "built"
    /\ btcCalls[1].amount = 60000
    /\ btcOutputs[1].sat = 50000 /\ btcOutputs[2].sat = 10000
    /\ btcOutputs[3].sat = 30000

\* subunits back to a decimal amount: the float64 nearest to n / 100000000
BtcFromSatoshi(n) == FFromDecimal8(n)

\* C12: converting a decimal amount to integer subunits and back is lossless
\* for every multiple of the smallest subunit: the subunits SendTransaction
\* computes for the requested amount are that amount, and converting them
\* back returns it.
C12_RoundTripLossless ==
    \A c \in Calls :
        btcCalls[c].pc = "built" =>
            /\ btcCalls[c].amountSatoshi = btcCalls[c].amount
            /\ BtcFromSatoshi(btcCalls[c].amountSatoshi)
                   = FFromDecimal8(btcCalls[c].amount)

\* C12, the case: a transaction was built for 0.00000003
C12_Witness ==
    \E c \in Calls : btcCalls[c].pc = "built" /\ btcCalls[c].amount = 3

\* call c listed the unspent outputs of its sending address
BtcListed(c) ==
    btcCalls[c].pc = "built" \/ btcCalls[c].result \in {Ok, ErrBroadcast, ErrInsufficientBalance}

\* C13: SendTransaction fails with ErrInsufficientBalance, and broadcasts
\* nothing, whenever the listed outputs of the sending address sum to less
\* than amount + fee; and every transaction it builds consumes inputs whose
\* total is at least amount + fee.
C13_InsufficientBalance ==
    \A c \in Calls :
        /\ (BtcListed(c) /\ btcCalls[c].balance < btcCalls[c].amount + BtcFeeSatoshi)
               => /\ btcCalls[c].pc = "done"
                  /\ btcCalls[c].result = ErrInsufficientBalance
        /\ btcCalls[c].result = ErrInsufficientBalance => ~BtcLanded(c)
        /\ (btcCalls[c].pc = "built" \/ BtcLanded(c))
               => BtcInputSatoshi(btcCalls[c].ins)
                      >= btcCalls[c].amount + BtcFeeSatoshi

\* C13, the case: an address whose outputs do not reach amount + fee, and the
\* call refused
C13_Witness ==
    \E c \in Calls :
        /\ BtcListed(c)
        /\ btcCalls[c].balance > 0
        /\ btcCalls[c].balance < btcCalls[c].amount + BtcFeeSatoshi
        /\ btcCalls[c].result = ErrInsufficientBalance

\* C14: an account-ledger SendTransaction broadcasts nothing when the
\* sender's balance is less than amount + gas price x 21000; the call ends
\* with ErrInsufficientBalance instead.
C14_NoBroadcastWithoutFunds ==
    /\ \A i \in 1..Len(ethSent) : ethSent[i].funded
    /\ \A c \in Calls :
           (ethCalls[c].pc = "priced" /\ ~EthFunded(ethCalls[c]))
               => ethCalls[c].result = ErrInsufficientBalance

\* C14, the case: a call from an account that could not pay amount and fee
\* went through the broadcast
C14_Witness ==
    \E i \in 1..Len(ethSent) :
        /\ ~ethSent[i].funded
        /\ ethCalls[ethSent[i].call].pc = "done"
        /\ ethCalls[ethSent[i].call].result = ErrSend

\* call c was given key material whose address is not its sending address
EthMismatched(c) ==
    ethCalls[c].key # "" /\ EthKeyAddress(ethCalls[c].key) # ethCalls[c].from

\* C15: an account-ledger SendTransaction given a key whose address differs
\* from the sending address ends with an error before any request reaches
\* the node: nothing is broadcast and the node holds no transaction of it.
C15_NoBroadcastOnKeyMismatch ==
    \A c \in Calls :
        EthMismatched(c) =>
            /\ ethCalls[c].pc = "done"
            /\ ethCalls[c].result = ErrKeyMismatch
            /\ ethCalls[c].requests = 0
            /\ \A i \in 1..Len(ethSent) : ethSent[i].call # c
            /\ \A t \in 1..Len(ethTxs) : ethTxs[t].call # c

\* C15, the case: a call with the key of another account was refused
C15_Witness ==
    \E c \in Calls :
        /\ EthMismatched(c)
        /\ ethCalls[c].from = "0xB2"
        /\ ethCalls[c].result = ErrKeyMismatch

\* the call was given a sender or a recipient that fails validation
BtcBadAddress(call) ==
    /\ call.from # "" /\ call.to # ""
    /\ ~BtcValidateAddress(call.from) \/ ~BtcValidateAddress(call.to)
EthBadAddress(call) ==
    /\ call.from # "" /\ call.to # ""
    /\ ~EthValidateAddress(call.from) \/ ~EthValidateAddress(call.to)

\* C16: on either adapter, SendTransaction given a sender or a recipient that
\* fails validation returns ErrInvalidAddress as its first step: it has sent
\* no request to the node and nothing of it is broadcast; and a call that
\* returned ErrInvalidAddress has sent no request.
C16_InvalidAddressFirst ==
    \A c \in Calls :
        /\ BtcBadAddress(btcCalls[c]) =>
               /\ btcCalls[c].pc = "done" /\ btcCalls[c].result = ErrInvalidAddress
        /\ btcCalls[c].result = ErrInvalidAddress =>
               btcCalls[c].requests = 0 /\ ~BtcLanded(c)
        /\ EthBadAddress(ethCalls[c]) =>
               /\ ethCalls[c].pc = "done" /\ ethCalls[c].result = ErrInvalidAddress
        /\ ethCalls[c].result = ErrInvalidAddress =>
               /\ ethCalls[c].requests = 0
               /\ \A i \in 1..Len(ethSent) : ethSent[i].call # c

\* C16, the case: a call with an invalid sender on one adapter and a call with
\* an invalid recipient on the other, both refused
C16_Witness ==
    /\ btcCalls[1].from = "bad" /\ btcCalls[1].to = "1B"
    /\ btcCalls[1].result = ErrInvalidAddress
    /\ ethCalls[1].from = "0xA1" /\ ethCalls[1].to = "bad"
    /\ ethCalls[1].result = ErrInvalidAddress

\* the format invariants of the ledgers: a Bitcoin address decodes with a
\* right checksum; an Ethereum address is 40 hex digits, and its EIP-55
\* checksum is right when its letters are of mixed case
BtcWellFormed(address) == address \in {"1A", "1B"}
EthWellFormed(address) == address \in {"0xA1", "0xa1", "0xB2"}

\* C17: ValidateAddress makes no call to the node and changes no state, and
\* returns false for every address that fails the format invariant of its
\* ledger.
C17_ValidateAddressRejectsMalformed ==
    /\ (validated.adapter = "bitcoin" /\ validated.result)
           => BtcWellFormed(validated.address)
    /\ (validated.adapter = "ethereum" /\ validated.result)
           => EthWellFormed(validated.address)

\* C17, the case: ValidateAddress was called on an address whose checksum is
\* wrong
C17_Witness ==
    validated.adapter = "ethereum" /\ validated.address = "0xA1~"

\* what the inputs of a built transaction leave after the amount and the fee
BtcRemainder(call) ==
    BtcInputSatoshi(call.ins) - call.amount - BtcFeeSatoshi

\* C18: a built transaction has a change output back to the sender exactly
\* when accumulated - requested - fee is positive (and above the dust
\* threshold, taken as 0 here: the least one), and the change output is for
\* that remainder.
C18_ChangeIsRemainder ==
    \A c \in Calls :
        btcCalls[c].pc = "built" =>
            /\ btcCalls[c].hasChange = (BtcRemainder(btcCalls[c]) > 0)
            /\ btcCalls[c].hasChange
                   => btcCalls[c].changeSatoshi = BtcRemainder(btcCalls[c])

\* C18, the case: a transaction built with a change output
C18_Witness ==
    \E c \in Calls : btcCalls[c].pc = "built" /\ btcCalls[c].hasChange

\* C19: a GetTransaction call that read a receipt with failed execution
\* status reports Failed, whatever the confirmation count; Pending is reported
\* only for a transaction without a receipt, Confirmed only for a receipt
\* with successful status.
C19_FailedReceiptIsFailed ==
    [][/\ (ethPoll.pc = "gt_height" /\ ethPoll'.pc = "idle"
              /\ ethPoll.status # 1)
          => ethTxObs'[ethPoll.tx].status = StatusFailed
       /\ \A t \in 1..Len(ethTxs) :
              ethTxObs'[t] # ethTxObs[t] =>
                  /\ ethTxObs'[t].status = StatusPending
                         => ethTxs[t].block = 0
                  /\ ethTxObs'[t].status = StatusConfirmed
                         => ethPoll.tx = t /\ ethPoll.status = 1]_vars

\* C19, the case: a transaction whose execution failed, one block deep, still
\* holding that receipt, has been reported Failed with 1 confirmation
C19_Witness ==
    \E t \in 1..Len(ethTxs) :
        /\ ethTxs[t].block > 0 /\ ethTxs[t].status = 0
        /\ ethTxObs[t].status = StatusFailed
        /\ ethTxObs[t].confirmations = BFromInt(1)

\* currentChainHeight - inclusionHeight for an included transaction, else 0
ChainDepth(height, inclusionHeight) ==
    IF inclusionHeight > 0 THEN height - inclusionHeight ELSE 0

\* C20: every count GetConfirmations returns is the chain height minus the
\* inclusion height of the transaction when it is in a block and 0 when it is
\* not, on both adapters; so it is never negative or wrapped.
C20_ConfirmationsIsDepth ==
    [][/\ \A t \in 1..Len(btcTxs) :
              btcConfObs'[t] # btcConfObs[t] =>
                  btcConfObs'[t].confirmations
                      = BFromInt(ChainDepth(btcHeight, btcTxs[t].height))
       /\ \A t \in 1..Len(ethTxs) :
              ethConfObs'[t] # ethConfObs[t] =>
                  ethConfObs'[t].confirmations
                      = BFromInt(ChainDepth(ethHeight, ethTxs[t].block))]_vars

\* C20, the case: a count has been returned for a transaction in a block
C20_Witness ==
    \/ \E t \in 1..Len(btcTxs) :
           btcTxs[t].height > 0 /\ btcConfObs[t].status = "count"
    \/ \E t \in 1..Len(ethTxs) :
           ethTxs[t].block > 0 /\ ethConfObs[t].status = "count"

\* the key material an adapter holds
KeyStoreOf(adapter) == IF adapter = "bitcoin" THEN BtcKeyStore ELSE EthKeyStore

\* C22: every address GenerateAddress has returned has its key material in
\* the adapter's key storage.
C22_IssuedAddressHasStoredKey ==
    \A i \in 1..Len(keyIssued) :
        keyIssued[i].privateKey \in KeyStoreOf(keyIssued[i].adapter)

\* C22, the case: GenerateAddress has returned an address
C22_Witness == Len(keyIssued) > 0

\* the encodings that give a private key away
KeyEncodings(issued) ==
    IF issued.adapter = "bitcoin" THEN {BtcWIF(issued.privateKey)}
    ELSE {EthKeyHex(issued.privateKey)}

\* C23: no log line of GenerateAddress carries the private key that was
\* generated, in any encoding.
C23_KeyNotLogged ==
    \A i \in 1..Len(keyIssued) :
        \A l \in 1..Len(keyLog) :
            \A a \in 1..Len(keyLog[l]) :
                keyLog[l][a] \notin KeyEncodings(keyIssued[i])

\* C23, the case: GenerateAddress has written a log line
C23_Witness == Len(keyLog) > 0

\* C24: one SendTransaction call sends at most one broadcast request, and a
\* failed broadcast ends the call with the error, on both adapters.
C24_AtMostOneBroadcast ==
    \A c \in Calls :
        /\ btcCalls[c].broadcasts <= 1
        /\ Cardinality({t \in 1..Len(btcTxs) : btcTxs[t].call = c}) <= 1
        /\ btcCalls[c].broadcasts = 1 => btcCalls[c].pc = "done"
        /\ ethCalls[c].broadcasts <= 1
        /\ Cardinality({i \in 1..Len(ethSent) : ethSent[i].call = c}) <= 1
        /\ ethCalls[c].broadcasts = 1 => ethCalls[c].pc = "done"

\* C24, the case: a broadcast failed on each adapter
C24_Witness ==
    \E c \in Calls :
        /\ btcCalls[c].broadcasts = 1 /\ btcCalls[c].result = ErrBroadcast
        /\ ethCalls[c].broadcasts = 1 /\ ethCalls[c].result = ErrSend

\* the registrations of a currency among the first n RegisterClient calls
RegisteredAt(currency, n) == {i \in 1..n : regLog[i].currency = currency}

\* the greatest element of a non-empty set of numbers
Latest(S) == CHOOSE i \in S : \A j \in S : j <= i

\* C25: GetClient returns the client most recently registered under the
\* currency, and an error with no client for a currency never registered;
\* GetSupportedCurrencies returns exactly the registered currencies, each
\* once.
C25_RegistryLookup ==
    /\ regGot.status = "returned" =>
           IF RegisteredAt(regGot.currency, regGot.at) = {}
           THEN regGot.err /\ regGot.client = RegNil
           ELSE /\ ~regGot.err
                /\ regGot.client
                     = regLog[Latest(RegisteredAt(regGot.currency, regGot.at))].client
    /\ regSupported.status = "returned" =>
           /\ Range(regSupported.currencies)
                = {c \in RegCurrencies : RegisteredAt(c, regSupported.at) # {}}
           /\ \A i, j \in 1..Len(regSupported.currencies) :
                  regSupported.currencies[i] = regSupported.currencies[j] => i = j

\* C25, the case: a currency registered twice with different clients was
\* looked up, a currency never registered was not found before, and two
\* currencies were listed
C25_Witness ==
    /\ regGot.status = "returned" /\ ~regGot.err
    /\ Cardinality(RegisteredAt(regGot.currency, regGot.at)) >= 2
    /\ \E i, j \in RegisteredAt(regGot.currency, regGot.at) :
           regLog[i].client # regLog[j].client
    /\ regSupported.status = "returned" /\ Len(regSupported.currencies) = 2

\* C26: a confirmation count that EthereumClient.GetTransaction or
\* GetConfirmations returns never exceeds the block number the node reported
\* to that call.
C26_CountWithinHeight ==
    [][\A t \in 1..Len(ethTxs) :
          /\ ethTxObs'[t] # ethTxObs[t]
                 => BCmp(ethTxObs'[t].confirmations, BFromInt(ethHeight)) <= 0
          /\ ethConfObs'[t] # ethConfObs[t]
                 => BCmp(ethConfObs'[t].confirmations, BFromInt(ethHeight)) <= 0]_vars

\* C26, the case: a call holds a receipt whose block number is above the
\* block number the node reports now
C26_Witness ==
    ethPoll.pc \in {"gt_height", "gc_height"} /\ ethPoll.blockNumber > ethHeight

\* the calls admitted for the key of call i in the window that ends with it
LimAdmittedWithin(i) ==
    {j \in 1..Len(limCalls) :
        /\ limCalls[j].ok /\ limCalls[j].key = limCalls[i].key
        /\ limCalls[j].at > limCalls[i].at - LimWindow
        /\ limCalls[j].at <= limCalls[i].at}

\* C27: the calls admitted for one key within a window never number more
\* than maxRequests, whatever the limit from 0 up, and a rejected call adds
\* no time to the key's record.
C27_AtMostMaxAdmitted ==
    /\ \A i \in 1..Len(limCalls) : Cardinality(LimAdmittedWithin(i)) <= limMax
    /\ ~limLast.ok =>
           /\ Len(limLast.after) <= Len(limLast.before)
           /\ Range(limLast.after) \subseteq Range(limLast.before)

\* C27, the case: a call was admitted and a later one for the key rejected
C27_Witness ==
    \E i, j \in 1..Len(limCalls) :
        /\ i < j /\ limCalls[i].key = limCalls[j].key
        /\ limCalls[i].ok /\ ~limCalls[j].ok

\* C28: with the cache enabled, applying a spread leaves the cached rate as
\* the provider gave it: GetRate returns the rate without spread, and
\* GetRateWithSpread returns the provider's rate with the spread applied
\* once, however often it is called.
C28_SpreadLeavesCache ==
    rateCacheEnabled =>
        /\ \A k \in DOMAIN rateCache :
               rateHeap[rateCache[k]].rate = rateHeap[rateCache[k]].quoted
        /\ (rateLast.op = "GetRate" /\ rateLast.ptr # RateNilPtr)
               => rateLast.rate = rateHeap[rateLast.ptr].quoted
        /\ (rateLast.op = "GetRateWithSpread" /\ rateLast.ptr # RateNilPtr)
               => \E spreadPercentage \in RateSpreads :
                      rateLast.rate = FMul(rateHeap[rateLast.ptr].quoted,
                                           RateSpreadFactor(spreadPercentage))

\* C28, the case: GetRate answered from the cache after a spread was applied
C28_Witness ==
    /\ rateCacheEnabled
    /\ rateLast.op = "GetRate" /\ rateLast.ptr # RateNilPtr /\ rateLast.asked = 0
    /\ rateLast.spreads >= 1

\* the cache key has an entry younger than cacheDuration
RateYoung(cacheKey) ==
    /\ cacheKey \in DOMAIN rateCache
    /\ rateNow - rateHeap[rateCache[cacheKey]].timestamp < CacheDuration

\* the positions of the registered providers that answer the last call
RateAnswered(answers) ==
    {i \in 1..Len(rateProviders) : answers[rateProviders[i]]}

\* C29: with the cache enabled, GetRate returns the cached entry only while
\* it is younger than cacheDuration; otherwise it returns and caches the rate
\* of the first provider, in registration order, that answers without error;
\* when none does it returns the last provider's error (ErrRateNotFound
\* without providers) and leaves the cache as it was.
C29_GetRate ==
    [][(rateCacheEnabled /\ rateLast' # rateLast /\ rateLast'.op = "GetRate") =>
          IF RateYoung(rateLast'.pair)
          THEN /\ rateLast'.ptr = rateCache[rateLast'.pair]
               /\ rateLast'.err = "" /\ rateLast'.asked = 0
               /\ rateCache' = rateCache /\ rateHeap' = rateHeap
          ELSE IF RateAnswered(rateLast'.answers) # {}
          THEN /\ rateLast'.ptr \in 1..Len(rateHeap') \ 1..Len(rateHeap)
               /\ rateLast'.err = ""
               /\ rateLast'.asked \in RateAnswered(rateLast'.answers)
               /\ \A i \in RateAnswered(rateLast'.answers) : rateLast'.asked <= i
               /\ rateHeap'[rateLast'.ptr].source = rateProviders[rateLast'.asked]
               /\ rateLast'.rate = RateQuote(rateProviders[rateLast'.asked])
               /\ DOMAIN rateCache' = DOMAIN rateCache \cup {rateLast'.pair}
               /\ rateCache'[rateLast'.pair] = rateLast'.ptr
               /\ \A k \in DOMAIN rateCache \ {rateLast'.pair} :
                      rateCache'[k] = rateCache[k]
          ELSE /\ rateLast'.ptr = RateNilPtr
               /\ rateLast'.err = IF rateProviders = <<>> THEN ErrRateNotFound
                                  ELSE RateError(rateProviders[Len(rateProviders)])
               /\ rateCache' = rateCache /\ rateHeap' = rateHeap]_vars

\* C29, the case: an entry had expired, the first provider failed and the
\* second answered
C29_Witness ==
    /\ rateCacheEnabled
    /\ rateLast.op = "GetRate" /\ rateLast.asked = 2 /\ rateLast.ptr = 2
    /\ rateHeap[1].pair = rateLast.pair

\* C30: IsCountryBlocked(c) is true exactly when c, whatever its case, is
\* configured as blocked or was blocked and not unblocked since, and
\* CheckTransaction, the IP not being blocked, returns ErrBlockedCountry for
\* exactly those codes.
C30_CountryBlockedExactly ==
    /\ fraudLast.op = "IsCountryBlocked" =>
           fraudLast.blocked = (FraudToUpper(fraudLast.country) \in fraudLast.expected)
    /\ (fraudLast.op = "CheckTransaction" /\ fraudLast.err # ErrBlockedIP) =>
           (fraudLast.err = ErrBlockedCountry)
               = (FraudToUpper(fraudLast.country) \in fraudLast.expected)

\* C30, the case: a configured country was looked up
C30_Witness ==
    /\ fraudLast.op = "IsCountryBlocked"
    /\ FraudToUpper(fraudLast.country) \in fraudLast.expected
    /\ fraudOps = 0

====
